---- MODULE Spec2Model ----
(***************************************************************************)
(* Model of the recipe store of recipe-rag-assistant:                      *)
(*   src/vector_store.py    RealTimeFAISSStore (record table, title map,   *)
(*                          FAISS flat index, change log, persistence)     *)
(*   src/recipe_manager.py  SimpleRecipeManager (monitor thread, edits)    *)
(*                                                                         *)
(* Slot numbers and index positions are 0-based as in the Python code; the *)
(* TLA+ sequences that hold them are 1-based, so slot i is element i + 1.  *)
(* Distances are squared L2 distances in hundredths (embeddings are points *)
(* on a line, in tenths), so similarity = 1 / (1 + dist / 100).            *)
(* The "time" field of a change-log entry (datetime.now()) is a pure value *)
(* no code reads; it is left out of the entries.                           *)
(***************************************************************************)
EXTENDS Integers, Sequences, FiniteSets, TLC

VARIABLES
    recipes,        \* self.recipes: the record table (list of dicts)
    title_to_idx,   \* self.title_to_idx: title -> slot
    index,          \* self.index: faiss.IndexFlatL2, the stored vectors in order
    changes,        \* self.changes: the change log
    auto_save,      \* config.AUTO_SAVE
    disk,           \* the two persisted artifacts (index file, data file)
    last,           \* the last completed call of a sequential caller and its outcome
    pc,             \* per thread: position in the call it is executing
    loc,            \* per thread: the local variables of that call
    monitor_active, \* SimpleRecipeManager._monitor_active
    mon,            \* the monitor thread: its position in _monitor_files and its locals
    fs              \* the files of config.RECIPE_DIR

vars == <<recipes, title_to_idx, index, changes, auto_save, disk, last, pc, loc,
          monitor_active, mon, fs>>

\* the state of the synchronizer and of the directory it watches
watch == <<monitor_active, mon, fs>>

-----------------------------------------------------------------------------
(* Bounds of the model *)

\* the record table is never grown beyond this many slots
MaxSlots == 3

\* the change log is never grown beyond this many entries
MaxChanges == 5

\* the grid of similarity and validation values is 0, 1/GridSteps, ..., 1
GridSteps == 10

\* the files of the watched directory are written or removed at most this often
MaxFsEvents == 1

\* the process is started again at most this many times
MaxRestarts == 2

\* in the runs with searches the change log is never grown beyond this
MaxSearchChanges == 3

\* in the runs with two threads the change log is never grown beyond this
MaxConcChanges == 2

\* in the runs with edit_recipe the change log is never grown beyond this
MaxEditChanges == 3

\* in the runs of a long session the change log grows by at most this much
MaxLogChanges == 2

\* start_monitoring starts at most this many threads
MaxThreads == 3

\* the update_log of the document database is never grown beyond this
MaxDbOps == 4

\* search is called with k in 1..MaxK
MaxK == 2

-----------------------------------------------------------------------------
(* Program constants *)

\* Config.SIM_THRESHOLD = 0.6, in hundredths
SIM_THRESHOLD == 60

\* _save keeps self.changes[-100:]
KEEP_CHANGES == 100

-----------------------------------------------------------------------------
(* Records *)

\* dict.get(key, default)
Get(d, key, default) == IF key \in DOMAIN d THEN d[key] ELSE default

\* a record as RecipeParser.parse builds it; "content" stands for the raw text
\* and the fields that do not enter the search text (time, calories, steps)
ParsedRecipe(t, c, d, ing, src, raw) ==
    [title |-> t, cuisine |-> c, diet |-> d, ingredients |-> ing, source |-> src,
     content |-> raw]

\* mutant of Tombstone: the slot is blanked, the title is not kept
TombstoneNoTitle(t) == [deleted |-> TRUE]

\* the record delete_recipe leaves in a slot
Tombstone(t) == [title |-> t, deleted |-> TRUE]

Titles == {"A", "B"}

\* the records _process_file parses from the watched files (source = file name)
FileRecipes ==
    { ParsedRecipe("A", "Italian", "Vegan", <<"basil">>, "a.md", 1),
      ParsedRecipe("B", "Asian", "Vegan", <<"tofu">>, "b.md", 1) }

\* the records edit_recipe parses from submitted text (source = "")
EditRecipes ==
    { ParsedRecipe("A", "italian", "", <<"basil", "garlic">>, "", 2),
      ParsedRecipe("B", "Italian", "Keto", <<"beef">>, "", 2) }

Recipes == FileRecipes \cup EditRecipes

\* _create_search_text: the fields that enter the embedding, as a word list
CreateSearchText(recipe) ==
    << Get(recipe, "title", ""), Get(recipe, "cuisine", ""), Get(recipe, "diet", "") >>
        \o Get(recipe, "ingredients", <<>>)

\* the embedder: a deterministic map from text (a word list) to a point (in tenths)
EmbedText(text) ==
    CASE text = <<"A", "Italian", "Vegan", "basil">> -> 0
      [] text = <<"A", "italian", "", "basil", "garlic">> -> 3
      [] text = <<"B", "Asian", "Vegan", "tofu">> -> 7
      [] text = <<"B", "Italian", "Keto", "beef">> -> 10
      [] text = <<"vegan", "basil">> -> 1
      [] text = <<"keto", "beef">> -> 9
      [] OTHER -> 5

Queries == { <<"vegan", "basil">>, <<"keto", "beef">> }

Embedding(recipe) == EmbedText(CreateSearchText(recipe))

\* _hash_recipe: the digest of the canonical (sort_keys) serialisation; two
\* records have the same digest exactly when they have the same keys and values
HashRecipe(recipe) == [md5 |-> recipe]

\* digest[:8], as stored in an update entry
Prefix8(h) == [md5_8 |-> h.md5]

-----------------------------------------------------------------------------
(* The flat index *)

\* index.add(v): the vector is stored at position ntotal
IndexAdd(ix, v) == Append(ix, v)

RECURSIVE Compact(_, _, _)
Compact(ix, ids, p) ==
    IF p > Len(ix) THEN <<>>
    ELSE IF (p - 1) \in ids THEN Compact(ix, ids, p + 1)
    ELSE <<ix[p]>> \o Compact(ix, ids, p + 1)

\* index.remove_ids(ids) of a flat index: the vectors at the positions in ids
\* are dropped and the vectors after them move down
IndexRemoveIds(ix, ids) == Compact(ix, ids, 1)

\* squared L2 distance, in hundredths
Dist(q, v) == (q - v) * (q - v)

\* the position among cands nearest to q (the lower position on a tie)
Nearest(ix, q, cands) ==
    CHOOSE p \in cands : \A o \in cands :
        \/ Dist(q, ix[p + 1]) < Dist(q, ix[o + 1])
        \/ Dist(q, ix[p + 1]) = Dist(q, ix[o + 1]) /\ p <= o

RECURSIVE NearestFrom(_, _, _, _)
NearestFrom(ix, q, cands, n) ==
    IF n = 0 THEN <<>>
    ELSE IF cands = {} THEN <<[dist |-> -1, idx |-> -1]>> \o NearestFrom(ix, q, cands, n - 1)
    ELSE LET p == Nearest(ix, q, cands)
         IN  <<[dist |-> Dist(q, ix[p + 1]), idx |-> p]>>
                 \o NearestFrom(ix, q, cands \ {p}, n - 1)

\* index.search(q, n): n (distance, position) pairs in ascending distance;
\* when the index holds fewer than n vectors the rest are position -1
IndexSearch(ix, q, n) == NearestFrom(ix, q, 0 .. (Len(ix) - 1), n)

-----------------------------------------------------------------------------
(* Change log entries and persistence *)

\* mutant of AddEntry: the entry carries the default user, not the caller's
AddEntryDefaultUser(title, user) == [title |-> title, action |-> "add", user |-> "user"]

AddEntry(title, user) == [title |-> title, action |-> "add", user |-> user]

UpdateEntry(title, old_hash, new_hash, user) ==
    [title |-> title, action |-> "update", old_hash |-> Prefix8(old_hash),
     new_hash |-> Prefix8(new_hash), user |-> user]

DeleteEntry(title) == [title |-> title, action |-> "delete"]

\* seq[-n:]
LastN(seq, n) ==
    IF Len(seq) <= n THEN seq ELSE SubSeq(seq, Len(seq) - n + 1, Len(seq))

NoFile == [exists |-> FALSE]

\* faiss.write_index(self.index, self.index_path)
IndexFile(ix) == [exists |-> TRUE, vectors |-> ix]

\* mutant of DataFile: the whole change log is written
DataFileWholeLog(recs, map, log) ==
    [exists |-> TRUE, recipes |-> recs, title_to_idx |-> map, changes |-> log]

\* pickle.dump({"recipes", "title_to_idx", "changes": self.changes[-100:]})
DataFile(recs, map, log) ==
    [exists |-> TRUE, recipes |-> recs, title_to_idx |-> map,
     changes |-> LastN(log, KEEP_CHANGES)]

\* a file whose write was cut short: it exists and cannot be read back
CorruptFile == [exists |-> TRUE, corrupt |-> TRUE]

\* the file f as the save number n wrote it.  "writes" counts the saves that
\* wrote both artifacts; a save stamps what it writes with the number it will
\* have when complete, so two artifacts of one save carry the same number
Stamped(f, n) == [x \in DOMAIN f \cup {"save"} |-> IF x = "save" THEN n ELSE f[x]]

\* mutant of Saved: the index artifact is written only when there is none yet
SavedIndexOnce(d, enabled, recs, map, ix, log) ==
    IF ~enabled THEN d
    ELSE [index |-> IF d.index.exists THEN d.index
                    ELSE Stamped(IndexFile(ix), d.writes + 1),
          data |-> Stamped(DataFile(recs, map, log), d.writes + 1),
          writes |-> d.writes + 1]

\* _save on the store (recs, map, ix, log), both writes succeeding: what the
\* two artifacts hold afterwards
Saved(d, enabled, recs, map, ix, log) ==
    IF ~enabled THEN d
    ELSE [index |-> Stamped(IndexFile(ix), d.writes + 1),
          data |-> Stamped(DataFile(recs, map, log), d.writes + 1),
          writes |-> d.writes + 1]

\* _create_new_index
Fresh == [index |-> <<>>, recipes |-> <<>>, title_to_idx |-> <<>>, changes |-> <<>>]

\* faiss.read_index / pickle.load succeed on the file
Readable(f) == f.exists /\ ~Get(f, "corrupt", FALSE)

\* _load: the store a new RealTimeFAISSStore holds, given the artifacts d
Load(d) ==
    IF d.index.exists /\ d.data.exists
    THEN IF Readable(d.index) /\ Readable(d.data)
         THEN [index |-> d.index.vectors,
               recipes |-> Get(d.data, "recipes", <<>>),
               title_to_idx |-> Get(d.data, "title_to_idx", <<>>),
               changes |-> Get(d.data, "changes", <<>>)]
         ELSE Fresh
    ELSE Fresh

-----------------------------------------------------------------------------
(* Title map *)

\* self.title_to_idx[title] = idx
MapSet(map, title, idx) ==
    [t \in DOMAIN map \cup {title} |-> IF t = title THEN idx ELSE map[t]]

\* mutant of MapDel: the entry stays
MapDelKeeps(map, title) == map

\* del self.title_to_idx[title]
MapDel(map, title) == [t \in DOMAIN map \ {title} |-> map[t]]

\* self.recipes[idx]
Slot(recs, idx) == recs[idx + 1]

\* self.recipes[idx] = recipe
SlotSet(recs, idx, recipe) == [recs EXCEPT ![idx + 1] = recipe]

-----------------------------------------------------------------------------
(* Search *)

\* the filter dicts callers pass; <<>> is "no filters" (None or {}), and a
\* value of "" is a filter that is not set
Filters ==
    { <<>>, [cuisine |-> "Italian"], [cuisine |-> "italian"], [diet |-> "Vegan"],
      [cuisine |-> "Italian", diet |-> "Vegan"], [cuisine |-> "", diet |-> "Keto"] }

Min(a, b) == IF a <= b THEN a ELSE b

\* truth value of a string (or of a missing key, read as "")
Truthy(x) == x # ""

\* mutant of Rejected: the diet filter is not looked at
RejectedCuisineOnly(recipe, filters) ==
    /\ DOMAIN filters # {}
    /\ Truthy(Get(filters, "cuisine", ""))
    /\ Get(recipe, "cuisine", "<None>") # filters["cuisine"]

\* the filter block of search: TRUE when the candidate is skipped
Rejected(recipe, filters) ==
    /\ DOMAIN filters # {}
    /\ \/ /\ Truthy(Get(filters, "cuisine", ""))
          /\ Get(recipe, "cuisine", "<None>") # filters["cuisine"]
       \/ /\ Truthy(Get(filters, "diet", ""))
          /\ Get(recipe, "diet", "<None>") # filters["diet"]

\* similarity >= SIM_THRESHOLD, with similarity = 1.0 / (1.0 + dist)
AboveThreshold(dist) == 100 * 100 >= SIM_THRESHOLD * (100 + dist)

\* one entry of "results": the slot's record with the scores added
ResultEntry(recipe, cand) == [recipe |-> recipe, idx |-> cand.idx, dist |-> cand.dist]

\* the body of the loop over the neighbours for candidate cand, given the
\* results collected so far: the results afterwards
LoopBody(recs, cand, filters, results) ==
    IF cand.idx >= Len(recs) THEN results
    ELSE IF cand.idx < 0 THEN results   \* position -1: distance is the largest float, similarity 0
    ELSE LET recipe == Slot(recs, cand.idx)
         IN  IF Rejected(recipe, filters) THEN results
             ELSE IF AboveThreshold(cand.dist) THEN Append(results, ResultEntry(recipe, cand))
             ELSE results

RECURSIVE Loop(_, _, _, _, _, _)
Loop(recs, cands, i, filters, k, results) ==
    IF i > Len(cands) THEN results
    ELSE LET next == LoopBody(recs, cands[i], filters, results)
         IN  IF Len(next) > Len(results) /\ Len(next) >= k THEN next
             ELSE Loop(recs, cands, i + 1, filters, k, next)

\* search on a store nobody changes meanwhile
SearchResults(recs, ix, query, filters, k) ==
    Loop(recs, IndexSearch(ix, EmbedText(query), Min(k * 2, Len(recs))), 1, filters, k, <<>>)

-----------------------------------------------------------------------------
(* Scores.  A str is a word of the model; for the substring tests of        *)
(* _validate_match it is spelled out as its sequence of characters.         *)
(* Scores are in tenths.  The code adds floats (0.1, 0.2, 0.3); the model   *)
(* adds the exact values.                                                   *)

\* the characters of a str
Chars(w) ==
    CASE w = "" -> <<>>
      [] w = "A" -> <<"A">>
      [] w = "B" -> <<"B">>
      [] w = "Italian" -> <<"I", "t", "a", "l", "i", "a", "n">>
      [] w = "italian" -> <<"i", "t", "a", "l", "i", "a", "n">>
      [] w = "Asian" -> <<"A", "s", "i", "a", "n">>
      [] w = "Vegan" -> <<"V", "e", "g", "a", "n">>
      [] w = "vegan" -> <<"v", "e", "g", "a", "n">>
      [] w = "Keto" -> <<"K", "e", "t", "o">>
      [] w = "keto" -> <<"k", "e", "t", "o">>
      [] w = "basil" -> <<"b", "a", "s", "i", "l">>
      [] w = "garlic" -> <<"g", "a", "r", "l", "i", "c">>
      [] w = "tofu" -> <<"t", "o", "f", "u">>
      [] w = "beef" -> <<"b", "e", "e", "f">>
      [] w = "soup" -> <<"s", "o", "u", "p">>
      [] w = "pie" -> <<"p", "i", "e">>
      [] w = "Title:" -> <<"T", "i", "t", "l", "e", ":">>
      [] w = "Subtitle:" -> <<"S", "u", "b", "t", "i", "t", "l", "e", ":">>
      [] w = "Time:" -> <<"T", "i", "m", "e", ":">>
      [] w = "Cuisine:" -> <<"C", "u", "i", "s", "i", "n", "e", ":">>
      [] w = "Diet:" -> <<"D", "i", "e", "t", ":">>
      [] w = "Ingredients:" -> <<"I", "n", "g", "r", "e", "d", "i", "e", "n", "t", "s", ":">>
      [] w = "Steps:" -> <<"S", "t", "e", "p", "s", ":">>
      [] w = "title:" -> <<"t", "i", "t", "l", "e", ":">>
      [] w = "time:" -> <<"t", "i", "m", "e", ":">>
      [] w = "ingredients:" -> <<"i", "n", "g", "r", "e", "d", "i", "e", "n", "t", "s", ":">>
      [] w = "steps:" -> <<"s", "t", "e", "p", "s", ":">>
      [] w = "ingredients" -> <<"i", "n", "g", "r", "e", "d", "i", "e", "n", "t", "s">>
      [] w = "steps" -> <<"s", "t", "e", "p", "s">>
      [] w = "title" -> <<"t", "i", "t", "l", "e">>
      [] w = "cuisine" -> <<"c", "u", "i", "s", "i", "n", "e">>
      [] w = "diet" -> <<"d", "i", "e", "t">>
      [] w = "Untitled" -> <<"U", "n", "t", "i", "t", "l", "e", "d">>
      [] w = "-" -> <<"-">>
      [] w = "1." -> <<"1", ".">>
      [] w = "10" -> <<"1", "0">>
      [] w = "mix" -> <<"m", "i", "x">>
      [] w = "well" -> <<"w", "e", "l", "l">>
      [] w = "with" -> <<"w", "i", "t", "h">>

LowerChar(c) ==
    CASE c = "A" -> "a"
      [] c = "B" -> "b"
      [] c = "I" -> "i"
      [] c = "K" -> "k"
      [] c = "V" -> "v"
      [] c = "C" -> "c"
      [] c = "D" -> "d"
      [] c = "S" -> "s"
      [] c = "T" -> "t"
      [] c = "U" -> "u"
      [] OTHER -> c

\* str.lower()
Lower(cs) == [i \in 1 .. Len(cs) |-> LowerChar(cs[i])]

\* " ".join(words), as characters
RECURSIVE Join(_)
Join(words) ==
    IF Len(words) = 0 THEN <<>>
    ELSE IF Len(words) = 1 THEN Chars(words[1])
    ELSE Chars(words[1]) \o <<" ">> \o Join(Tail(words))

\* the white space of the model's texts: the blank and the line feed
White == {" ", "\n"}

\* str.split(): the maximal runs of characters that are not white space,
\* from the k-th first character of a run to the k-th last one
Split(cs) ==
    LET starts == {i \in 1 .. Len(cs) : cs[i] \notin White /\ (i = 1 \/ cs[i - 1] \in White)}
        ends == {i \in 1 .. Len(cs) : cs[i] \notin White /\ (i = Len(cs) \/ cs[i + 1] \in White)}
        Nth(S, k) == CHOOSE i \in S : Cardinality({j \in S : j < i}) = k - 1
    IN  [k \in 1 .. Cardinality(starts) |-> SubSeq(cs, Nth(starts, k), Nth(ends, k))]

\* a in b, for two str
IsIn(a, b) == \E i \in 0 .. Len(b) - Len(a) : SubSeq(b, i + 1, i + Len(a)) = a

\* what each check of _validate_match adds to the score, for a query given as
\* its words joined by blanks
Contributions(query, recipe) ==
    LET query_lower == Lower(Join(query))
        ingredients_text == Lower(Join(Get(recipe, "ingredients", <<>>)))
        words == Split(query_lower)
    IN  [title |-> IF IsIn(Lower(Chars(Get(recipe, "title", ""))), query_lower)
                   THEN 3 ELSE 0,
         ingredients |-> Cardinality({i \in 1 .. Len(words) :
                             Len(words[i]) > 3 /\ IsIn(words[i], ingredients_text)}),
         cuisine |-> IF IsIn(Lower(Chars(Get(recipe, "cuisine", ""))), query_lower)
                     THEN 2 ELSE 0,
         diet |-> IF IsIn(Lower(Chars(Get(recipe, "diet", ""))), query_lower)
                  THEN 2 ELSE 0]

\* _validate_match
ValidateMatch(query, recipe) ==
    LET c == Contributions(query, recipe)
    IN  Min(10, c.title + c.ingredients + c.cuisine + c.diet)

\* a number in [0, 1] as a fraction
Frac(n, d) == [num |-> n, den |-> d]

\* mutant of GetConfidenceLevel: the two labels above "low" change places
GetConfidenceLevelSwapped(similarity, validation) ==
    LET sum_num == similarity.num * validation.den + validation.num * similarity.den
        sum_den == similarity.den * validation.den
    IN  IF 10 * sum_num > 2 * 7 * sum_den THEN "medium"
        ELSE IF 10 * sum_num > 2 * 4 * sum_den THEN "high"
        ELSE "low"

\* _get_confidence_level: combined = (similarity + validation) / 2 against
\* 0.7 and 0.4, on fractions
GetConfidenceLevel(similarity, validation) ==
    LET sum_num == similarity.num * validation.den + validation.num * similarity.den
        sum_den == similarity.den * validation.den
    IN  IF 10 * sum_num > 2 * 7 * sum_den THEN "high"
        ELSE IF 10 * sum_num > 2 * 4 * sum_den THEN "medium"
        ELSE "low"

\* the entry search appends: the record with similarity = 1 / (1 + dist),
\* validation_score and confidence added
Scored(query, entry) ==
    [recipe |-> entry.recipe, idx |-> entry.idx, dist |-> entry.dist,
     validation_score |-> ValidateMatch(query, entry.recipe),
     confidence |-> GetConfidenceLevel(Frac(100, 100 + entry.dist),
                                       Frac(ValidateMatch(query, entry.recipe), 10))]

WithScores(query, results) == [i \in 1 .. Len(results) |-> Scored(query, results[i])]

-----------------------------------------------------------------------------
(* The parser.  A text is held as its lines, a line as its words; the parser *)
(* works on the characters: the words of a line joined by blanks, the lines  *)
(* joined by line feeds.                                                     *)

\* the characters of a text
RECURSIVE TextChars(_)
TextChars(text) ==
    IF Len(text) = 0 THEN <<>>
    ELSE IF Len(text) = 1 THEN Join(text[1])
    ELSE Join(text[1]) \o <<"\n">> \o TextChars(Tail(text))

\* the position of the first c in cs at or after position i, 0 when there is none
FindFrom(cs, c, i) ==
    LET at == {j \in i .. Len(cs) : cs[j] = c}
    IN  IF at = {} THEN 0 ELSE CHOOSE j \in at : \A m \in at : j <= m

RECURSIVE LStrip(_)
LStrip(cs) == IF Len(cs) > 0 /\ cs[1] \in White THEN LStrip(Tail(cs)) ELSE cs

RECURSIVE RStrip(_)
RStrip(cs) ==
    IF Len(cs) > 0 /\ cs[Len(cs)] \in White THEN RStrip(SubSeq(cs, 1, Len(cs) - 1)) ELSE cs

\* str.strip()
Strip(cs) == RStrip(LStrip(cs))

\* str.split(sep): the pieces between the occurrences of sep, empty ones included
RECURSIVE SplitAt(_, _)
SplitAt(cs, sep) ==
    LET i == FindFrom(cs, sep, 1)
    IN  IF i = 0 THEN <<cs>>
        ELSE <<SubSeq(cs, 1, i - 1)>> \o SplitAt(SubSeq(cs, i + 1, Len(cs)), sep)

\* the values a Title, Diet or Cuisine line or an ingredient line can carry
Values ==
    {"", "A", "B", "Italian", "italian", "Asian", "Vegan", "Keto", "basil", "garlic",
     "tofu", "beef"}

\* the str with the characters cs
Word(cs) == CHOOSE w \in Values : Chars(w) = cs

\* RecipeParser.parse, the body of the loop for one line; st holds data and
\* section.  The fields time, calories and steps are part of "content" here
ParseLine(st, raw) ==
    LET line == Strip(raw)
        colon == FindFrom(line, ":", 1)
    IN  IF Len(line) = 0 THEN st
        ELSE IF Lower(line) = Chars("ingredients:") THEN [st EXCEPT !.section = "ingredients"]
        ELSE IF Lower(line) = Chars("steps:") THEN [st EXCEPT !.section = "steps"]
        ELSE IF colon > 0 /\ st.section = "None"
        THEN LET key == Lower(Strip(SubSeq(line, 1, colon - 1)))
                 value == Strip(SubSeq(line, colon + 1, Len(line)))
             IN  IF key = Chars("title") THEN [st EXCEPT !.data.title = Word(value)]
                 ELSE IF key = Chars("diet") THEN [st EXCEPT !.data.diet = Word(value)]
                 ELSE IF key = Chars("cuisine") THEN [st EXCEPT !.data.cuisine = Word(value)]
                 ELSE st
        ELSE IF st.section = "ingredients" /\ line[1] = "-"
        THEN [st EXCEPT !.data.ingredients = Append(@, Word(Strip(Tail(line))))]
        ELSE st

RECURSIVE ParseLines(_, _, _)
ParseLines(lines, i, st) ==
    IF i > Len(lines) THEN st.data
    ELSE ParseLines(lines, i + 1, ParseLine(st, lines[i]))

\* RecipeParser.parse(content, filename)
Parse(content, filename) ==
    ParseLines(SplitAt(Strip(TextChars(content)), "\n"), 1,
               [data |-> ParsedRecipe("Untitled", "", "", <<>>, filename, content),
                section |-> "None"])

\* the required markers of validate and the error each one's absence gives
Required ==
    << [marker |-> "title:", error |-> "Missing 'Title:'"],
       [marker |-> "time:", error |-> "Missing 'Time:'"],
       [marker |-> "ingredients", error |-> "Missing ingredients section"],
       [marker |-> "steps", error |-> "Missing steps section"] >>

RECURSIVE Errors(_, _)
Errors(content_lower, i) ==
    IF i > Len(Required) THEN <<>>
    ELSE (IF IsIn(Chars(Required[i].marker), content_lower)
          THEN <<>> ELSE <<Required[i].error>>) \o Errors(content_lower, i + 1)

\* mutant of Validate: the steps section is not asked for
ValidateNoSteps(content) ==
    LET errors == Errors(Lower(TextChars(content)) \o Chars("steps"), 1)
    IN  [valid |-> Len(errors) = 0, errors |-> errors]

\* RecipeParser.validate
Validate(content) ==
    LET errors == Errors(Lower(TextChars(content)), 1)
    IN  [valid |-> Len(errors) = 0, errors |-> errors]

-----------------------------------------------------------------------------
(* validate_answer.  An answer is held as its sentences, a sentence as its   *)
(* words; a source is a dict, held as its (key, value) pairs in insertion    *)
(* order, a value being a str (its words) or a list of str.                  *)

\* sep.join(pieces), on characters
RECURSIVE JoinWith(_, _)
JoinWith(pieces, sep) ==
    IF Len(pieces) = 0 THEN <<>>
    ELSE IF Len(pieces) = 1 THEN pieces[1]
    ELSE pieces[1] \o sep \o JoinWith(Tail(pieces), sep)

\* the characters of an answer: every sentence ends with a full stop
AnswerChars(answer) ==
    JoinWith([i \in 1 .. Len(answer) |-> Join(answer[i]) \o <<".">>], <<" ">>)

\* json.dumps(source, ensure_ascii=False)
JsonDumps(source) ==
    LET Quoted(words) == <<"\"">> \o Join(words) \o <<"\"">>
        Value(v) == IF "str" \in DOMAIN v THEN Quoted(v.str)
                    ELSE <<"[">> \o JoinWith([i \in 1 .. Len(v.list) |-> Quoted(v.list[i])],
                                             <<",", " ">>) \o <<"]">>
        Pair(kv) == Quoted(<<kv.key>>) \o <<":", " ">> \o Value(kv)
    IN  <<"{">> \o JoinWith([i \in 1 .. Len(source) |-> Pair(source[i])], <<",", " ">>)
            \o <<"}">>

\* facts = [s.strip() for s in answer.split(".") if len(s.strip()) > 10]
Facts(answer) ==
    LET pieces == SplitAt(AnswerChars(answer), ".")
        Long(piece) == Len(piece) > 10
    IN  SelectSeq([i \in 1 .. Len(pieces) |-> Strip(pieces[i])], Long)

\* the body of the loop over the facts: TRUE when the fact counts as matched
FactMatches(fact, source) ==
    LET words == Split(Lower(fact))
        fact_words == {words[i] : i \in {j \in 1 .. Len(words) : Len(words[j]) > 3}}
        tokens == Split(Lower(JsonDumps(source)))
        source_words == {tokens[i] : i \in 1 .. Len(tokens)}
    IN  /\ fact_words # {}
        /\ 10 * Cardinality(fact_words \cap source_words) > 3 * Cardinality(fact_words)

\* sum of the matches of the sources from position i on
RECURSIVE SumMatches(_, _, _)
SumMatches(facts, sources, i) ==
    IF i > Len(sources) THEN 0
    ELSE Cardinality({f \in 1 .. Len(facts) : FactMatches(facts[f], sources[i])})
            + SumMatches(facts, sources, i + 1)

\* mutant of ValidateAnswer: no early return for an empty sources list
ValidateAnswerNoEarlyReturn(answer, sources) ==
    LET facts == Facts(answer)
        avg_score == Frac(SumMatches(facts, sources, 1),
                          (IF Len(facts) = 0 THEN 1 ELSE Len(facts)) * Len(sources))
    IN  [valid |-> 10 * avg_score.num > 3 * avg_score.den,
         score |-> avg_score,
         confidence |-> IF 10 * avg_score.num > 6 * avg_score.den THEN "high"
                        ELSE IF 10 * avg_score.num > 3 * avg_score.den THEN "medium"
                        ELSE "low",
         sources_checked |-> Len(sources)]

\* validate_answer.  Each source's score is matches / len(facts) (0 without
\* facts); avg_score is their mean, held as a fraction
ValidateAnswer(answer, sources) ==
    IF Len(sources) = 0
    THEN [valid |-> FALSE, score |-> Frac(0, 1), confidence |-> "low"]
    ELSE LET facts == Facts(answer)
             avg_score == Frac(SumMatches(facts, sources, 1),
                               (IF Len(facts) = 0 THEN 1 ELSE Len(facts)) * Len(sources))
         IN  [valid |-> 10 * avg_score.num > 3 * avg_score.den,
              score |-> avg_score,
              confidence |-> IF 10 * avg_score.num > 6 * avg_score.den THEN "high"
                             ELSE IF 10 * avg_score.num > 3 * avg_score.den THEN "medium"
                             ELSE "low",
              sources_checked |-> Len(sources)]

-----------------------------------------------------------------------------
(* The calls, made one at a time *)

Idle == [t \in {"monitor", "fg"} |-> "idle"]

NoLocals == [t \in {"monitor", "fg"} |-> [op |-> "none"]]

\* no monitor thread was started
NoMonitor == [at |-> "none"]

\* an empty directory
NoFiles == [files |-> <<>>, events |-> 0]

\* the store alone, constructed on an empty data directory
Init ==
    /\ recipes = <<>>
    /\ title_to_idx = <<>>
    /\ index = <<>>
    /\ changes = <<>>
    /\ auto_save \in BOOLEAN
    /\ disk = [index |-> NoFile, data |-> NoFile, writes |-> 0]
    /\ last = [op |-> "none"]
    /\ pc = Idle
    /\ loc = NoLocals
    /\ monitor_active = FALSE
    /\ mon = NoMonitor
    /\ fs = NoFiles

Outcome(action, title) == [success |-> TRUE, action |-> action, title |-> title]

\* add_or_update, title known and hash equal
NoChangeBranch(recipe, user, title) ==
    /\ UNCHANGED <<recipes, title_to_idx, index, changes, disk>>
    /\ last' = [op |-> "add_or_update", recipe |-> recipe, user |-> user,
                result |-> Outcome("no_change", title)]

\* mutant of UpdateBranch: the old vector is not removed from the index
UpdateBranchKeepsVector(recipe, user, title) ==
    LET idx == title_to_idx[title]
        old_hash == HashRecipe(Slot(recipes, idx))
    IN  /\ Len(changes) < MaxChanges
        /\ recipes' = SlotSet(recipes, idx, recipe)
        /\ index' = IndexAdd(index, Embedding(recipe))
        /\ changes' = Append(changes, UpdateEntry(title, old_hash, HashRecipe(recipe), user))
        /\ UNCHANGED title_to_idx
        /\ disk' = Saved(disk, auto_save, recipes', title_to_idx', index', changes')
        /\ last' = [op |-> "add_or_update", recipe |-> recipe, user |-> user,
                    result |-> Outcome("updated", title)]

\* add_or_update, title known and hash different
UpdateBranch(recipe, user, title) ==
    LET idx == title_to_idx[title]
        old_hash == HashRecipe(Slot(recipes, idx))
    IN  /\ Len(changes) < MaxChanges
        /\ recipes' = SlotSet(recipes, idx, recipe)
        /\ index' = IndexAdd(IndexRemoveIds(index, {idx}), Embedding(recipe))
        /\ changes' = Append(changes, UpdateEntry(title, old_hash, HashRecipe(recipe), user))
        /\ UNCHANGED title_to_idx
        /\ disk' = Saved(disk, auto_save, recipes', title_to_idx', index', changes')
        /\ last' = [op |-> "add_or_update", recipe |-> recipe, user |-> user,
                    result |-> Outcome("updated", title)]

\* the slots that hold a tombstone
FreeSlots == {i \in 0 .. Len(recipes) - 1 : Get(Slot(recipes, i), "deleted", FALSE)}

\* mutant of AddBranch: a new title takes the lowest tombstoned slot, if any
AddBranchReuse(recipe, user, title) ==
    /\ Len(changes) < MaxChanges
    /\ IF FreeSlots = {}
       THEN /\ Len(recipes) < MaxSlots
            /\ recipes' = Append(recipes, recipe)
            /\ title_to_idx' = MapSet(title_to_idx, title, Len(recipes))
       ELSE LET idx == CHOOSE i \in FreeSlots : \A j \in FreeSlots : i <= j
            IN  /\ recipes' = SlotSet(recipes, idx, recipe)
                /\ title_to_idx' = MapSet(title_to_idx, title, idx)
    /\ index' = IndexAdd(index, Embedding(recipe))
    /\ changes' = Append(changes, AddEntry(title, user))
    /\ disk' = Saved(disk, auto_save, recipes', title_to_idx', index', changes')
    /\ last' = [op |-> "add_or_update", recipe |-> recipe, user |-> user,
                result |-> Outcome("added", title)]

\* add_or_update, title unknown
AddBranch(recipe, user, title) ==
    LET idx == Len(recipes)
    IN  /\ Len(changes) < MaxChanges
        /\ Len(recipes) < MaxSlots
        /\ recipes' = Append(recipes, recipe)
        /\ title_to_idx' = MapSet(title_to_idx, title, idx)
        /\ index' = IndexAdd(index, Embedding(recipe))
        /\ changes' = Append(changes, AddEntry(title, user))
        /\ disk' = Saved(disk, auto_save, recipes', title_to_idx', index', changes')
        /\ last' = [op |-> "add_or_update", recipe |-> recipe, user |-> user,
                    result |-> Outcome("added", title)]

\* mutant of AddOrUpdate: a known title is rewritten without comparing hashes
AddOrUpdateNoHashCheck(recipe, user) ==
    LET title == Get(recipe, "title", "Unknown")
    IN  /\ UNCHANGED <<auto_save, watch, pc, loc>>
        /\ IF title \in DOMAIN title_to_idx
           THEN UpdateBranch(recipe, user, title)
           ELSE AddBranch(recipe, user, title)

AddOrUpdate(recipe, user) ==
    LET title == Get(recipe, "title", "Unknown")
    IN  /\ UNCHANGED <<auto_save, watch, pc, loc>>
        /\ IF title \in DOMAIN title_to_idx
           THEN IF HashRecipe(Slot(recipes, title_to_idx[title])) = HashRecipe(recipe)
                THEN NoChangeBranch(recipe, user, title)
                ELSE UpdateBranch(recipe, user, title)
           ELSE AddBranch(recipe, user, title)

DeleteRecipe(title) ==
    /\ UNCHANGED <<auto_save, watch, pc, loc>>
    /\ IF title \in DOMAIN title_to_idx
       THEN LET idx == title_to_idx[title]
            IN  /\ Len(changes) < MaxChanges
                /\ title_to_idx' = MapDel(title_to_idx, title)
                /\ recipes' = SlotSet(recipes, idx, Tombstone(title))
                /\ changes' = Append(changes, DeleteEntry(title))
                /\ UNCHANGED index
                /\ disk' = Saved(disk, auto_save, recipes', title_to_idx', index', changes')
                /\ last' = [op |-> "delete_recipe", title |-> title, result |-> TRUE]
       ELSE /\ UNCHANGED <<recipes, title_to_idx, index, changes, disk>>
            /\ last' = [op |-> "delete_recipe", title |-> title, result |-> FALSE]

\* index.search with k = 0 (an empty table): the faiss wrapper either asserts
\* k > 0 or returns no neighbours, depending on its version
Search(query, filters, k) ==
    /\ UNCHANGED <<recipes, title_to_idx, index, changes, auto_save, watch, disk, pc, loc>>
    /\ \E raised \in (IF Min(k * 2, Len(recipes)) = 0 THEN BOOLEAN ELSE {FALSE}) :
          last' = [op |-> "search", query |-> query, filters |-> filters, k |-> k,
                   raised |-> raised,
                   results |-> IF raised THEN <<>>
                               ELSE WithScores(query,
                                        SearchResults(recipes, index, query, filters, k))]

\* the mutating calls
StoreNext ==
    \/ \E recipe \in FileRecipes : AddOrUpdate(recipe, "auto_update")
    \/ \E recipe \in EditRecipes : AddOrUpdate(recipe, "user_edit")
    \/ \E title \in Titles : DeleteRecipe(title)

Next == StoreNext

Spec == Init /\ [][Next]_vars

\* the mutating calls, at most MaxSearchChanges of them, and searches
SearchNext ==
    \/ Len(changes) < MaxSearchChanges /\ StoreNext
    \/ \E query \in Queries, filters \in Filters, k \in 1 .. MaxK : Search(query, filters, k)

SpecSearch == Init /\ [][SearchNext]_vars

-----------------------------------------------------------------------------
(* The two scoring functions of search, applied to given arguments *)

\* the records a candidate slot can hold: parsed records (one without a
\* Cuisine line, one with an empty Title value) and tombstones
ScoreRecipes ==
    Recipes \cup {Tombstone(t) : t \in Titles}
        \cup { ParsedRecipe("A", "", "Vegan", <<"basil">>, "c.md", 3),
               ParsedRecipe("", "Italian", "", <<>>, "d.md", 4) }

ScoreQueries ==
    Queries \cup { <<>>, <<"A">>, <<"pie">>, <<"Italian", "garlic", "soup">>,
                   <<"basil", "vegan", "basil">> }

Grid == {Frac(n, GridSteps) : n \in 0 .. GridSteps}

CallValidateMatch(query, recipe) ==
    /\ UNCHANGED <<recipes, title_to_idx, index, changes, auto_save, watch, disk, pc, loc>>
    /\ last' = [op |-> "_validate_match", query |-> query, recipe |-> recipe,
                contributions |-> Contributions(query, recipe),
                score |-> ValidateMatch(query, recipe)]

CallGetConfidenceLevel(similarity, validation) ==
    /\ UNCHANGED <<recipes, title_to_idx, index, changes, auto_save, watch, disk, pc, loc>>
    /\ last' = [op |-> "_get_confidence_level", similarity |-> similarity,
                validation |-> validation,
                label |-> GetConfidenceLevel(similarity, validation)]

ScoreNext ==
    \/ \E query \in ScoreQueries, recipe \in ScoreRecipes : CallValidateMatch(query, recipe)
    \/ \E similarity \in Grid, validation \in Grid :
          CallGetConfidenceLevel(similarity, validation)

SpecScore == Init /\ [][ScoreNext]_vars

-----------------------------------------------------------------------------
(* validate_answer, applied to given arguments *)

\* a call passes at most this many sources
MaxSources == 2

\* answers: the empty one, and texts of one or two sentences
Answers ==
    { <<>>,
      << <<"garlic", "basil", "soup">> >>,
      << <<"pie">>, <<"Italian", "vegan", "tofu">> >>,
      << <<"mix", "beef", "with", "garlic">>, <<"garlic", "basil", "soup">> >>,
      << <<"basil">>, <<"beef">> >> }

\* the dicts passed as sources
SourceDicts ==
    { << [key |-> "title", str |-> <<"A">>],
         [key |-> "ingredients", list |-> << <<"basil">>, <<"garlic">> >>],
         [key |-> "steps", list |-> << <<"mix", "garlic", "basil", "soup", "well">> >>] >>,
      << [key |-> "title", str |-> <<"Italian", "vegan", "tofu", "pie">>],
         [key |-> "cuisine", str |-> <<"Italian">>] >>,
      << [key |-> "title", str |-> <<"B">>], [key |-> "diet", str |-> <<"Keto">>],
         [key |-> "steps", list |-> << <<"mix", "beef", "with", "garlic", "well">>,
                                      <<"mix">> >>] >> }

\* the lists of at most n sources
SourceLists(n) == UNION {[1 .. m -> SourceDicts] : m \in 0 .. n}

CallValidateAnswer(answer, sources) ==
    /\ UNCHANGED <<recipes, title_to_idx, index, changes, auto_save, watch, disk, pc, loc>>
    /\ last' = [op |-> "validate_answer", answer |-> answer, sources |-> sources,
                result |-> ValidateAnswer(answer, sources)]

AnswerNext ==
    \E answer \in Answers, sources \in SourceLists(MaxSources) :
        CallValidateAnswer(answer, sources)

SpecAnswer == Init /\ [][AnswerNext]_vars

-----------------------------------------------------------------------------
(* The monitor thread and the foreground, statement by statement.  No lock  *)
(* guards the store: a thread switch can fall between any two statements.   *)

Threads == {"monitor", "fg"}

\* a dict of locals with one more binding
With(l, key, val) == [x \in DOMAIN l \cup {key} |-> IF x = key THEN val ELSE l[x]]

SetLocal(t, key, val) == loc' = [loc EXCEPT ![t] = With(loc[t], key, val)]

Goto(t, label) == pc' = [pc EXCEPT ![t] = label]

\* the call returns (or raises): the thread is idle and its locals keep the outcome
Return(t, result) ==
    /\ pc' = [pc EXCEPT ![t] = "idle"]
    /\ loc' = [loc EXCEPT ![t] = With(loc[t], "result", result)]

\* mutating calls under way
InFlight == {t \in Threads : pc[t] # "idle" /\ loc[t].op # "search"}

MayMutate == Len(changes) + Cardinality(InFlight) < MaxConcChanges

\* the first statements of add_or_update: title and content_hash are computed
EnterAddOrUpdate(t, recipe, user) ==
    /\ pc[t] = "idle"
    /\ loc' = [loc EXCEPT ![t] =
                  [op |-> "add_or_update", recipe |-> recipe, user |-> user,
                   title |-> Get(recipe, "title", "Unknown"),
                   content_hash |-> HashRecipe(recipe)]]
    /\ Goto(t, "aou_check")
    /\ UNCHANGED <<recipes, title_to_idx, index, changes, auto_save, disk, last>>

\* _process_file (monitor) or edit_recipe (foreground) enters add_or_update
BeginAddOrUpdate(t, recipe, user) ==
    /\ MayMutate
    /\ Len(recipes) + Cardinality(InFlight) < MaxSlots
    /\ EnterAddOrUpdate(t, recipe, user)
    /\ UNCHANGED watch

\* if title in self.title_to_idx
AouCheck(t) ==
    /\ pc[t] = "aou_check"
    /\ Goto(t, IF loc[t].title \in DOMAIN title_to_idx THEN "upd_idx" ELSE "add_len")
    /\ UNCHANGED <<recipes, title_to_idx, index, changes, auto_save, watch, disk, last, loc>>

\* idx = self.title_to_idx[title]
UpdIdx(t) ==
    /\ pc[t] = "upd_idx"
    /\ IF loc[t].title \in DOMAIN title_to_idx
       THEN /\ SetLocal(t, "idx", title_to_idx[loc[t].title])
            /\ Goto(t, "upd_old")
       ELSE Return(t, [raised |-> "KeyError"])
    /\ UNCHANGED <<recipes, title_to_idx, index, changes, auto_save, watch, disk, last>>

\* old_recipe = self.recipes[idx]; old_hash; the comparison with content_hash
UpdOld(t) ==
    /\ pc[t] = "upd_old"
    /\ LET old_hash == HashRecipe(Slot(recipes, loc[t].idx))
       IN  IF old_hash = loc[t].content_hash
           THEN Return(t, Outcome("no_change", loc[t].title))
           ELSE /\ SetLocal(t, "old_hash", old_hash)
                /\ Goto(t, "upd_write")
    /\ UNCHANGED <<recipes, title_to_idx, index, changes, auto_save, watch, disk, last>>

\* self.recipes[idx] = recipe
UpdWrite(t) ==
    /\ pc[t] = "upd_write"
    /\ recipes' = SlotSet(recipes, loc[t].idx, loc[t].recipe)
    /\ Goto(t, "upd_remove")
    /\ UNCHANGED <<title_to_idx, index, changes, auto_save, watch, disk, last, loc>>

\* self.index.remove_ids([idx])
UpdRemove(t) ==
    /\ pc[t] = "upd_remove"
    /\ index' = IndexRemoveIds(index, {loc[t].idx})
    /\ Goto(t, "upd_add")
    /\ UNCHANGED <<recipes, title_to_idx, changes, auto_save, watch, disk, last, loc>>

\* self.index.add(new_embedding)
UpdAdd(t) ==
    /\ pc[t] = "upd_add"
    /\ index' = IndexAdd(index, Embedding(loc[t].recipe))
    /\ Goto(t, "upd_log")
    /\ UNCHANGED <<recipes, title_to_idx, changes, auto_save, watch, disk, last, loc>>

\* self.changes.append({... "action": "update" ...})
UpdLog(t) ==
    /\ pc[t] = "upd_log"
    /\ changes' = Append(changes, UpdateEntry(loc[t].title, loc[t].old_hash,
                                              loc[t].content_hash, loc[t].user))
    /\ SetLocal(t, "action", "updated")
    /\ Goto(t, "save_index")
    /\ UNCHANGED <<recipes, title_to_idx, index, auto_save, watch, disk, last>>

\* idx = len(self.recipes)
AddLen(t) ==
    /\ pc[t] = "add_len"
    /\ SetLocal(t, "idx", Len(recipes))
    /\ Goto(t, "add_append")
    /\ UNCHANGED <<recipes, title_to_idx, index, changes, auto_save, watch, disk, last>>

\* self.recipes.append(recipe)
AddAppend(t) ==
    /\ pc[t] = "add_append"
    /\ recipes' = Append(recipes, loc[t].recipe)
    /\ Goto(t, "add_map")
    /\ UNCHANGED <<title_to_idx, index, changes, auto_save, watch, disk, last, loc>>

\* self.title_to_idx[title] = idx
AddMap(t) ==
    /\ pc[t] = "add_map"
    /\ title_to_idx' = MapSet(title_to_idx, loc[t].title, loc[t].idx)
    /\ Goto(t, "add_index")
    /\ UNCHANGED <<recipes, index, changes, auto_save, watch, disk, last, loc>>

\* self.index.add(embedding)
AddIndex(t) ==
    /\ pc[t] = "add_index"
    /\ index' = IndexAdd(index, Embedding(loc[t].recipe))
    /\ Goto(t, "add_log")
    /\ UNCHANGED <<recipes, title_to_idx, changes, auto_save, watch, disk, last, loc>>

\* self.changes.append({... "action": "add" ...})
AddLog(t) ==
    /\ pc[t] = "add_log"
    /\ changes' = Append(changes, AddEntry(loc[t].title, loc[t].user))
    /\ SetLocal(t, "action", "added")
    /\ Goto(t, "save_index")
    /\ UNCHANGED <<recipes, title_to_idx, index, auto_save, watch, disk, last>>

\* what the call under way returns after _save
CallResult(t) ==
    IF loc[t].op = "delete_recipe" THEN TRUE ELSE Outcome(loc[t].action, loc[t].title)

\* _save: the AUTO_SAVE test and faiss.write_index
SaveIndex(t) ==
    /\ pc[t] = "save_index"
    /\ IF auto_save
       THEN /\ disk' = [disk EXCEPT !.index = Stamped(IndexFile(index), disk.writes + 1)]
            /\ Goto(t, "save_data")
            /\ UNCHANGED loc
       ELSE /\ Return(t, CallResult(t))
            /\ UNCHANGED disk
    /\ UNCHANGED <<recipes, title_to_idx, index, changes, auto_save, watch, last>>

\* _save: pickle.dump of recipes, title_to_idx and the last changes
SaveData(t) ==
    /\ pc[t] = "save_data"
    /\ disk' = [disk EXCEPT !.data = Stamped(DataFile(recipes, title_to_idx, changes),
                                              disk.writes + 1),
                            !.writes = @ + 1]
    /\ Return(t, CallResult(t))
    /\ UNCHANGED <<recipes, title_to_idx, index, changes, auto_save, watch, last>>

\* delete_recipe is called
EnterDelete(t, title) ==
    /\ pc[t] = "idle"
    /\ loc' = [loc EXCEPT ![t] = [op |-> "delete_recipe", title |-> title]]
    /\ Goto(t, "del_check")
    /\ UNCHANGED <<recipes, title_to_idx, index, changes, auto_save, disk, last>>

\* the foreground enters delete_recipe
BeginDelete(t, title) ==
    /\ MayMutate
    /\ EnterDelete(t, title)
    /\ UNCHANGED watch

\* if title in self.title_to_idx: idx = self.title_to_idx[title]
DelCheck(t) ==
    /\ pc[t] = "del_check"
    /\ IF loc[t].title \in DOMAIN title_to_idx
       THEN /\ SetLocal(t, "idx", title_to_idx[loc[t].title])
            /\ Goto(t, "del_map")
       ELSE Return(t, FALSE)
    /\ UNCHANGED <<recipes, title_to_idx, index, changes, auto_save, watch, disk, last>>

\* del self.title_to_idx[title]
DelMap(t) ==
    /\ pc[t] = "del_map"
    /\ IF loc[t].title \in DOMAIN title_to_idx
       THEN /\ title_to_idx' = MapDel(title_to_idx, loc[t].title)
            /\ Goto(t, "del_write")
            /\ UNCHANGED loc
       ELSE /\ Return(t, [raised |-> "KeyError"])
            /\ UNCHANGED title_to_idx
    /\ UNCHANGED <<recipes, index, changes, auto_save, watch, disk, last>>

\* self.recipes[idx] = {"title": title, "deleted": True}
DelWrite(t) ==
    /\ pc[t] = "del_write"
    /\ recipes' = SlotSet(recipes, loc[t].idx, Tombstone(loc[t].title))
    /\ Goto(t, "del_log")
    /\ UNCHANGED <<title_to_idx, index, changes, auto_save, watch, disk, last, loc>>

\* self.changes.append({... "action": "delete" ...})
DelLog(t) ==
    /\ pc[t] = "del_log"
    /\ changes' = Append(changes, DeleteEntry(loc[t].title))
    /\ Goto(t, "save_index")
    /\ UNCHANGED <<recipes, title_to_idx, index, auto_save, watch, disk, last, loc>>

\* the foreground enters search: the query is embedded
BeginSearch(t, query, filters, k) ==
    /\ pc[t] = "idle"
    /\ loc' = [loc EXCEPT ![t] =
                  [op |-> "search", query |-> query, filters |-> filters, k |-> k]]
    /\ Goto(t, "s_len")
    /\ UNCHANGED <<recipes, title_to_idx, index, changes, auto_save, watch, disk, last>>

\* min(k * 2, len(self.recipes)), the argument of index.search
SearchLen(t) ==
    /\ pc[t] = "s_len"
    /\ SetLocal(t, "n", Min(loc[t].k * 2, Len(recipes)))
    /\ Goto(t, "s_index")
    /\ UNCHANGED <<recipes, title_to_idx, index, changes, auto_save, watch, disk, last>>

\* distances, indices = self.index.search(query_embedding, n)
SearchIndex(t) ==
    /\ pc[t] = "s_index"
    /\ \E raised \in (IF loc[t].n = 0 THEN BOOLEAN ELSE {FALSE}) :
          IF raised
          THEN Return(t, [raised |-> "AssertionError"])
          ELSE /\ loc' = [loc EXCEPT ![t] =
                      With(With(With(loc[t],
                          "cands", IndexSearch(index, EmbedText(loc[t].query), loc[t].n)),
                          "i", 1), "results", <<>>)]
               /\ Goto(t, "s_loop")
    /\ UNCHANGED <<recipes, title_to_idx, index, changes, auto_save, watch, disk, last>>

\* one turn of the loop over the neighbours, or its end and the return
SearchLoop(t) ==
    /\ pc[t] = "s_loop"
    /\ IF loc[t].i > Len(loc[t].cands)
       THEN Return(t, [results |-> WithScores(loc[t].query, loc[t].results)])
       ELSE LET next == LoopBody(recipes, loc[t].cands[loc[t].i], loc[t].filters,
                                 loc[t].results)
            IN  IF Len(next) > Len(loc[t].results) /\ Len(next) >= loc[t].k
                THEN Return(t, [results |-> WithScores(loc[t].query, next)])
                ELSE /\ loc' = [loc EXCEPT ![t] =
                            With(With(loc[t], "results", next), "i", loc[t].i + 1)]
                     /\ UNCHANGED pc
    /\ UNCHANGED <<recipes, title_to_idx, index, changes, auto_save, watch, disk, last>>

\* a statement of add_or_update, _save included
AouStep(t) ==
    \/ AouCheck(t) \/ UpdIdx(t) \/ UpdOld(t) \/ UpdWrite(t) \/ UpdRemove(t)
    \/ UpdAdd(t) \/ UpdLog(t)
    \/ AddLen(t) \/ AddAppend(t) \/ AddMap(t) \/ AddIndex(t) \/ AddLog(t)
    \/ SaveIndex(t) \/ SaveData(t)

\* a statement of delete_recipe before its _save
DelStep(t) == DelCheck(t) \/ DelMap(t) \/ DelWrite(t) \/ DelLog(t)

\* a statement of the mutating call a thread is in
MutateStep(t) == AouStep(t) \/ DelStep(t)

\* a statement of the call a thread is in
Step(t) ==
    \/ MutateStep(t)
    \/ SearchLen(t) \/ SearchIndex(t) \/ SearchLoop(t)

ConcNext ==
    \/ \E recipe \in FileRecipes : BeginAddOrUpdate("monitor", recipe, "auto_update")
    \/ \E recipe \in EditRecipes : BeginAddOrUpdate("fg", recipe, "user_edit")
    \/ \E title \in Titles : BeginDelete("fg", title)
    \/ \E query \in Queries, filters \in Filters, k \in 1 .. MaxK :
          BeginSearch("fg", query, filters, k)
    \/ \E t \in Threads : Step(t)

SpecConc == Init /\ [][ConcNext]_vars

-----------------------------------------------------------------------------
(* Failing writes and restarts.  The calls are made one at a time, statement *)
(* by statement, so that a write can fail and the process can end between   *)
(* the two writes of _save.                                                 *)

\* the call raises out of _save: neither _save nor its callers in the store
\* catch what a write raises
SaveRaises(t) ==
    /\ pc' = [pc EXCEPT ![t] = "idle"]
    /\ loc' = [loc EXCEPT ![t] =
                  With(With(loc[t], "result", [raised |-> "OSError"]), "save_failed", TRUE)]

\* faiss.write_index raises, before it wrote or after it wrote a part
SaveIndexFails(t) ==
    /\ pc[t] = "save_index"
    /\ auto_save
    /\ \E f \in {disk.index, CorruptFile} : disk' = [disk EXCEPT !.index = f]
    /\ SaveRaises(t)
    /\ UNCHANGED <<recipes, title_to_idx, index, changes, auto_save, watch, last>>

\* open(self.data_path, "wb") raises, or pickle.dump raises on the opened
\* (truncated) file
SaveDataFails(t) ==
    /\ pc[t] = "save_data"
    /\ \E f \in {disk.data, CorruptFile} : disk' = [disk EXCEPT !.data = f]
    /\ SaveRaises(t)
    /\ UNCHANGED <<recipes, title_to_idx, index, changes, auto_save, watch, last>>

\* the artifacts a process leaves when it ends: as they are, or with the
\* file it was writing cut short
LeftBehind ==
    {disk}
      \cup {[disk EXCEPT !.index = CorruptFile] :
                t \in {u \in Threads : pc[u] = "save_index" /\ auto_save}}
      \cup {[disk EXCEPT !.data = CorruptFile] :
                t \in {u \in Threads : pc[u] = "save_data"}}

\* the process ends, wherever its threads are, and a new one constructs the
\* store: __init__ and _load
Restart ==
    /\ Get(last, "n", 0) < MaxRestarts
    /\ \E d \in LeftBehind :
          /\ disk' = d
          /\ recipes' = Load(d).recipes
          /\ title_to_idx' = Load(d).title_to_idx
          /\ index' = Load(d).index
          /\ changes' = Load(d).changes
    /\ last' = [op |-> "_load", n |-> Get(last, "n", 0) + 1]
    /\ pc' = Idle
    /\ loc' = NoLocals
    /\ UNCHANGED <<auto_save, watch>>

PersistNext ==
    \/ \E recipe \in FileRecipes :
          pc = Idle /\ BeginAddOrUpdate("monitor", recipe, "auto_update")
    \/ \E recipe \in EditRecipes :
          pc = Idle /\ BeginAddOrUpdate("fg", recipe, "user_edit")
    \/ \E title \in Titles : pc = Idle /\ BeginDelete("fg", title)
    \/ \E t \in Threads : MutateStep(t)
    \/ \E t \in Threads : SaveIndexFails(t) \/ SaveDataFails(t)
    \/ Restart

SpecPersist == Init /\ [][PersistNext]_vars

-----------------------------------------------------------------------------
(* A long session.  The record of A was added from its file and then       *)
(* rewritten, in turn by an edit and by the file, until the change log is   *)
(* one entry short of what _save keeps; the calls go on from there, one at  *)
(* a time, statement by statement, and a write of _save can fail.           *)

\* the record of A that the n-th call of the session stored, and its caller
VersionA(n) == CHOOSE r \in (IF n % 2 = 1 THEN FileRecipes ELSE EditRecipes) : r.title = "A"

\* self.changes after the n calls
LongLog(n) ==
    [i \in 1 .. n |->
        LET user(j) == IF j % 2 = 1 THEN "auto_update" ELSE "user_edit"
        IN  IF i = 1 THEN AddEntry("A", user(1))
            ELSE UpdateEntry("A", HashRecipe(VersionA(i - 1)), HashRecipe(VersionA(i)),
                             user(i))]

\* the store and the artifacts after the KEEP_CHANGES - 1 calls
InitLog ==
    LET n == KEEP_CHANGES - 1
        recs == << VersionA(n) >>
        map == MapSet(<<>>, "A", 0)
        ix == << Embedding(VersionA(n)) >>
    IN  /\ recipes = recs
        /\ title_to_idx = map
        /\ index = ix
        /\ changes = LongLog(n)
        /\ auto_save \in BOOLEAN
        /\ disk = IF auto_save
                  THEN [index |-> Stamped(IndexFile(ix), n),
                        data |-> Stamped(DataFile(recs, map, LongLog(n)), n),
                        writes |-> n]
                  ELSE [index |-> NoFile, data |-> NoFile, writes |-> 0]
        /\ last = [op |-> "none"]
        /\ pc = Idle
        /\ loc = NoLocals
        /\ monitor_active = FALSE
        /\ mon = NoMonitor
        /\ fs = NoFiles

\* no call is under way and the log may grow
LogIdle == pc = Idle /\ Len(changes) < KEEP_CHANGES - 1 + MaxLogChanges

LogNext ==
    \/ \E recipe \in Recipes :
          /\ LogIdle
          /\ Len(recipes) < MaxSlots
          /\ EnterAddOrUpdate("fg", recipe, IF recipe \in FileRecipes THEN "auto_update"
                                                                     ELSE "user_edit")
          /\ UNCHANGED watch
    \/ \E title \in Titles : LogIdle /\ EnterDelete("fg", title) /\ UNCHANGED watch
    \/ MutateStep("fg")
    \/ SaveIndexFails("fg")
    \/ SaveDataFails("fg")

SpecLog == InitLog /\ [][LogNext]_vars

-----------------------------------------------------------------------------
(* edit_recipe, statement by statement, on texts that RecipeParser reads.   *)
(* The calls are made one at a time.                                        *)

\* the texts submitted to edit_recipe or uploaded as files.  A1: a recipe
\* file; A2: an edit of A without a Diet line; Subtitle: the only line with
\* "title:" in it is no Title line; NoTime, NoSteps, Bare: a required marker
\* is missing (Time; Steps; all four)
Texts ==
    [A1 |-> << <<"Title:", "A">>, <<"Time:", "10">>, <<"Diet:", "Vegan">>,
               <<"Cuisine:", "Italian">>, <<>>, <<"Ingredients:">>, <<"-", "basil">>,
               <<>>, <<"Steps:">>, <<"1.", "mix">> >>,
     A2 |-> << <<"Title:", "A">>, <<"Time:", "10">>, <<"Cuisine:", "italian">>,
               <<"Ingredients:">>, <<"-", "basil">>, <<"-", "garlic">>, <<"Steps:">>,
               <<"1.", "mix">> >>,
     B |-> << <<"Title:", "B">>, <<"Time:", "10">>, <<"Diet:", "Keto">>,
              <<"Cuisine:", "Italian">>, <<"Ingredients:">>, <<"-", "beef">>, <<"Steps:">>,
              <<"1.", "mix">> >>,
     Subtitle |-> << <<"Subtitle:", "A">>, <<"Time:", "10">>, <<"Ingredients:">>,
                     <<"-", "tofu">>, <<"Steps:">>, <<"1.", "mix">> >>,
     NoTime |-> << <<"Title:", "A">>, <<"Ingredients:">>, <<"-", "basil">>, <<"Steps:">>,
                   <<"1.", "mix">> >>,
     NoSteps |-> << <<"Title:", "B">>, <<"Time:", "10">>, <<"Ingredients:">>,
                    <<"-", "beef">> >>,
     Bare |-> << <<"basil">>, <<"garlic">> >>]

EditTexts == {Texts[n] : n \in DOMAIN Texts}

\* the titles edit_recipe is called for
OldTitles == {"A", "B", "Untitled"}

\* the store when a call was made
Snapshot ==
    [recipes |-> recipes, title_to_idx |-> title_to_idx, index |-> index,
     changes |-> changes, disk |-> disk]

\* an edit_recipe call is under way
EditCalled == last.op = "edit_recipe" /\ last.at # "returned"

\* no call is under way and the log may grow
EditIdle == pc = Idle /\ ~EditCalled /\ Len(changes) < MaxEditChanges

\* edit_recipe: valid, errors = self.parser.validate(new_content); if not
\* valid: return {"success": False, "errors": errors}
EditValidate(old_title, new_content) ==
    /\ EditIdle
    /\ Len(recipes) < MaxSlots
    /\ LET v == Validate(new_content)
           call == [op |-> "edit_recipe", old_title |-> old_title,
                    new_content |-> new_content, before |-> Snapshot]
       IN  last' = IF v.valid
                   THEN With(call, "at", "parse")
                   ELSE With(With(call, "at", "returned"),
                             "result", [success |-> FALSE, errors |-> v.errors])
    /\ loc' = NoLocals
    /\ UNCHANGED <<recipes, title_to_idx, index, changes, auto_save, watch, disk, pc>>

\* mutant of EditStore: the record is stored under the title the call names
EditStoreUnderOldTitle ==
    /\ EditCalled
    /\ loc["fg"].op = "none"
    /\ EnterAddOrUpdate("fg", [Parse(last.new_content, "") EXCEPT !.title = last.old_title],
                        "user_edit")
    /\ UNCHANGED watch

\* edit_recipe: new_recipe = self.parser.parse(new_content) and the call of
\* self.store.add_or_update(new_recipe, "user_edit")
EditStore ==
    /\ EditCalled
    /\ loc["fg"].op = "none"
    /\ EnterAddOrUpdate("fg", Parse(last.new_content, ""), "user_edit")
    /\ UNCHANGED watch

\* edit_recipe: return result
EditReturn ==
    /\ EditCalled
    /\ pc["fg"] = "idle"
    /\ loc["fg"].op = "add_or_update"
    /\ last' = With([last EXCEPT !.at = "returned"], "result", loc["fg"].result)
    /\ loc' = NoLocals
    /\ UNCHANGED <<recipes, title_to_idx, index, changes, auto_save, watch, disk, pc>>

\* edit_recipe calls, and between them uploads of the file of A handed to
\* add_or_update by _process_file, and delete_recipe calls
EditNext ==
    \/ \E old_title \in OldTitles, new_content \in EditTexts :
          EditValidate(old_title, new_content)
    \/ EditStore
    \/ AouStep("fg")
    \/ EditReturn
    \/ EditIdle /\ AddOrUpdate(Parse(Texts.A1, "a.md"), "auto_update")
    \/ \E title \in OldTitles : EditIdle /\ DeleteRecipe(title)

SpecEdit == Init /\ [][EditNext]_vars

-----------------------------------------------------------------------------
(* The synchronizer: start_monitoring, stop_monitoring and the loop of      *)
(* _monitor_files, with the directory it polls.  The loop calls the store   *)
(* as thread "monitor", statement by statement.  A start_monitoring that    *)
(* finds the flag cleared is taken here only once the earlier thread has    *)
(* ended.                                                                   *)

Paths == {"a.md", "b.md"}

\* for ext in ["*.md", "*.txt"]
Patterns == <<"*.md", "*.txt">>

\* the path matches the glob pattern
Matches(path, ext) ==
    CASE ext = "*.md" -> path \in {"a.md", "b.md"}
      [] ext = "*.txt" -> FALSE

\* bytes open(..., encoding="utf-8").read() cannot decode
Undecodable == [undecodable |-> TRUE]

\* what a file can hold, as RecipeParser.parse reads it
Versions(path) ==
    CASE path = "a.md" ->
            { ParsedRecipe("A", "Italian", "Vegan", <<"basil">>, "a.md", 1),
              ParsedRecipe("A", "Italian", "Vegan", <<"basil", "garlic">>, "a.md", 2) }
      [] path = "b.md" ->
            { ParsedRecipe("B", "Asian", "Vegan", <<"tofu">>, "b.md", 1), Undecodable }

\* the directory when the manager is constructed
InitialFiles ==
    { <<>>,
      [p \in Paths |->
          [mtime |-> 0,
           content |-> IF p = "a.md"
                       THEN ParsedRecipe("A", "Italian", "Vegan", <<"basil">>, "a.md", 1)
                       ELSE ParsedRecipe("B", "Asian", "Vegan", <<"tofu">>, "b.md", 1)]] }

\* the lists glob.glob can return for a set of paths (the order is the
\* directory's)
Orders(S) == {s \in [1 .. Cardinality(S) -> S] : \A i, j \in DOMAIN s : s[i] = s[j] => i = j}

\* the frame of _monitor_files at its first statement: last_check = {}
NewMonitor ==
    [at |-> "m_while", last_check |-> <<>>, current_files |-> <<>>, exts |-> <<>>,
     files |-> <<>>, cur |-> <<>>]

\* SimpleRecipeManager.__init__ on an empty data directory: the store is
\* fresh and start_monitoring has started the thread
InitMonitor ==
    /\ recipes = <<>>
    /\ title_to_idx = <<>>
    /\ index = <<>>
    /\ changes = <<>>
    /\ auto_save = TRUE
    /\ disk = [index |-> NoFile, data |-> NoFile, writes |-> 0]
    /\ last = [op |-> "none"]
    /\ pc = Idle
    /\ loc = NoLocals
    /\ monitor_active = TRUE
    /\ mon = NewMonitor
    /\ \E f \in InitialFiles : fs = [files |-> f, events |-> 0]

store == <<recipes, title_to_idx, index, changes, auto_save, disk, last>>

\* somebody writes a file of the directory
WriteFile(path, content) ==
    /\ fs.events < MaxFsEvents
    /\ fs' = [files |-> With(fs.files, path, [mtime |-> fs.events + 1, content |-> content]),
              events |-> fs.events + 1]
    /\ UNCHANGED <<store, pc, loc, monitor_active, mon>>

\* somebody removes a file of the directory
RemoveFile(path) ==
    /\ fs.events < MaxFsEvents
    /\ path \in DOMAIN fs.files
    /\ fs' = [files |-> [p \in DOMAIN fs.files \ {path} |-> fs.files[p]],
              events |-> fs.events + 1]
    /\ UNCHANGED <<store, pc, loc, monitor_active, mon>>

\* start_monitoring
StartMonitoring ==
    /\ IF monitor_active
       THEN UNCHANGED <<monitor_active, mon>>
       ELSE /\ mon.at \in {"none", "exited"}
            /\ monitor_active' = TRUE
            /\ mon' = NewMonitor
    /\ UNCHANGED <<store, pc, loc, fs>>

\* stop_monitoring: the flag is cleared; join(timeout=2) returns when the
\* thread has ended or after two seconds
StopMonitoring ==
    /\ monitor_active' = FALSE
    /\ UNCHANGED <<store, pc, loc, mon, fs>>

\* mutant of MonWhile: the flag is not looked at
MonWhileIgnoresFlag ==
    /\ mon.at = "m_while"
    /\ mon' = [mon EXCEPT !.at = "m_ext", !.current_files = <<>>, !.exts = Patterns]
    /\ UNCHANGED <<store, pc, loc, monitor_active, fs>>

\* while self._monitor_active: ... current_files = {}
MonWhile ==
    /\ mon.at = "m_while"
    /\ mon' = IF monitor_active
              THEN [mon EXCEPT !.at = "m_ext", !.current_files = <<>>, !.exts = Patterns]
              ELSE [mon EXCEPT !.at = "exited"]
    /\ UNCHANGED <<store, pc, loc, monitor_active, fs>>

\* for ext in [...]: glob.glob(os.path.join(RECIPE_DIR, ext))
MonExt ==
    /\ mon.at = "m_ext"
    /\ IF mon.exts = <<>>
       THEN mon' = [mon EXCEPT !.at = "m_deleted"]
       ELSE \E order \in Orders({p \in DOMAIN fs.files : Matches(p, Head(mon.exts))}) :
               mon' = [mon EXCEPT !.at = "m_file", !.files = order, !.exts = Tail(@)]
    /\ UNCHANGED <<store, pc, loc, monitor_active, fs>>

\* for filepath in ...: try: mtime = os.path.getmtime(filepath);
\* current_files[filepath] = mtime; the test against last_check.
\* getmtime raises when the file is gone: except Exception prints and the
\* for loop goes on
MonFile ==
    /\ mon.at = "m_file"
    /\ IF mon.files = <<>>
       THEN mon' = [mon EXCEPT !.at = "m_ext"]
       ELSE LET filepath == Head(mon.files)
            IN  IF filepath \notin DOMAIN fs.files
                THEN mon' = [mon EXCEPT !.files = Tail(@)]
                ELSE LET mtime == fs.files[filepath].mtime
                         changed == \/ filepath \notin DOMAIN mon.last_check
                                    \/ mon.last_check[filepath] # mtime
                     IN  mon' = [mon EXCEPT
                                   !.files = Tail(@),
                                   !.current_files = With(@, filepath, mtime),
                                   !.at = IF changed THEN "m_open" ELSE "m_file",
                                   !.cur = IF changed
                                           THEN [filepath |-> filepath, mtime |-> mtime]
                                           ELSE <<>>]
    /\ UNCHANGED <<store, pc, loc, monitor_active, fs>>

\* mutant of MonOpen: the observed time is recorded only when the file was read
MonOpenForgets ==
    /\ mon.at = "m_open"
    /\ LET filepath == mon.cur.filepath
       IN  IF \/ filepath \notin DOMAIN fs.files
              \/ "undecodable" \in DOMAIN fs.files[filepath].content
           THEN mon' = [mon EXCEPT !.at = "m_file", !.cur = <<>>]
           ELSE mon' = [mon EXCEPT !.at = "m_store",
                                   !.cur = With(@, "recipe", fs.files[filepath].content)]
    /\ UNCHANGED <<store, pc, loc, monitor_active, fs>>

\* _process_file: open, read and parse.  When open or read raises, the
\* except Exception of _process_file prints, _process_file returns and
\* last_check[filepath] = mtime follows
MonOpen ==
    /\ mon.at = "m_open"
    /\ LET filepath == mon.cur.filepath
       IN  IF \/ filepath \notin DOMAIN fs.files
              \/ "undecodable" \in DOMAIN fs.files[filepath].content
           THEN mon' = [mon EXCEPT !.at = "m_file", !.cur = <<>>,
                                   !.last_check = With(@, filepath, mon.cur.mtime)]
           ELSE mon' = [mon EXCEPT !.at = "m_store",
                                   !.cur = With(@, "recipe", fs.files[filepath].content)]
    /\ UNCHANGED <<store, pc, loc, monitor_active, fs>>

\* _process_file: self.store.add_or_update(recipe, "auto_update") is entered
MonStore ==
    /\ mon.at = "m_store"
    /\ EnterAddOrUpdate("monitor", mon.cur.recipe, "auto_update")
    /\ mon' = [mon EXCEPT !.at = "m_call"]
    /\ UNCHANGED <<monitor_active, fs>>

\* add_or_update has returned (the outcome is printed) or raised (the except
\* Exception of _process_file prints) and its frame is gone; then
\* last_check[filepath] = mtime
MonReturn ==
    /\ mon.at = "m_call"
    /\ pc["monitor"] = "idle"
    /\ mon' = [mon EXCEPT !.at = "m_file", !.cur = <<>>,
                          !.last_check = With(@, mon.cur.filepath, mon.cur.mtime)]
    /\ loc' = [loc EXCEPT !["monitor"] = [op |-> "none"]]
    /\ UNCHANGED <<store, pc, monitor_active, fs>>

\* mutant of MonDeleted: the entries of the files that are gone are kept
MonDeletedKeeps ==
    /\ mon.at = "m_deleted"
    /\ mon' = [mon EXCEPT !.at = "m_sleep"]
    /\ UNCHANGED <<store, pc, loc, monitor_active, fs>>

\* for filepath in list(last_check.keys()): if filepath not in
\* current_files: del last_check[filepath]
MonDeleted ==
    /\ mon.at = "m_deleted"
    /\ mon' = [mon EXCEPT !.at = "m_sleep",
                          !.last_check = [p \in DOMAIN @ \cap DOMAIN mon.current_files |-> @[p]]]
    /\ UNCHANGED <<store, pc, loc, monitor_active, fs>>

\* time.sleep(self.config.CHECK_INTERVAL)
MonSleep ==
    /\ mon.at = "m_sleep"
    /\ mon' = [mon EXCEPT !.at = "m_while"]
    /\ UNCHANGED <<store, pc, loc, monitor_active, fs>>

\* a statement of the tick outside the per-file try raises an Exception:
\* the outer except prints "Monitor error"
MonTickFails ==
    /\ mon.at \in {"m_ext", "m_file", "m_deleted"}
    /\ mon' = [mon EXCEPT !.at = "m_backoff", !.cur = <<>>]
    /\ UNCHANGED <<store, pc, loc, monitor_active, fs>>

\* mutant of MonBackoff: the thread ends after a monitor error
MonBackoffDies ==
    /\ mon.at = "m_backoff"
    /\ mon' = [mon EXCEPT !.at = "exited"]
    /\ UNCHANGED <<store, pc, loc, monitor_active, fs>>

\* time.sleep(5) of the outer except
MonBackoff ==
    /\ mon.at = "m_backoff"
    /\ mon' = [mon EXCEPT !.at = "m_while"]
    /\ UNCHANGED <<store, pc, loc, monitor_active, fs>>

\* what the monitor thread executes; of the writes of _save the first one
\* can fail here
MonitorThread ==
    \/ MonWhile \/ MonExt \/ MonFile \/ MonOpen \/ MonStore \/ MonReturn
    \/ MonDeleted \/ MonSleep \/ MonTickFails \/ MonBackoff
    \/ AouStep("monitor")
    \/ SaveIndexFails("monitor")

MonitorNext ==
    \/ MonitorThread
    \/ StartMonitoring
    \/ StopMonitoring
    \/ \E path \in Paths : \E content \in Versions(path) : WriteFile(path, content)
    \/ \E path \in Paths : RemoveFile(path)

SpecMonitor == InitMonitor /\ [][MonitorNext]_vars

\* the thread is scheduled as long as it has a statement to execute, and its
\* sleeps end
SpecMonitorFair == SpecMonitor /\ WF_vars(MonitorThread)

\* the manager some time after its construction on a directory that held
\* a.md alone: the first tick has ingested the file (one add, one _save) and
\* the loop sleeps; the file has been removed since
InitWatch ==
    LET a == ParsedRecipe("A", "Italian", "Vegan", <<"basil">>, "a.md", 1)
        recs == << a >>
        map == MapSet(<<>>, "A", 0)
        ix == << Embedding(a) >>
        log == << AddEntry("A", "auto_update") >>
    IN  /\ recipes = recs
        /\ title_to_idx = map
        /\ index = ix
        /\ changes = log
        /\ auto_save = TRUE
        /\ disk = [index |-> Stamped(IndexFile(ix), 1),
                   data |-> Stamped(DataFile(recs, map, log), 1), writes |-> 1]
        /\ last = [op |-> "none"]
        /\ pc = Idle
        /\ loc = NoLocals
        /\ monitor_active = TRUE
        /\ mon = [NewMonitor EXCEPT !.at = "m_sleep",
                                    !.last_check = With(<<>>, "a.md", 0),
                                    !.current_files = With(<<>>, "a.md", 0)]
        /\ fs = NoFiles

\* the loop goes on from there; the file can come back, b.md can appear
WatchNext ==
    \/ MonitorThread
    \/ StartMonitoring
    \/ StopMonitoring
    \/ \E path \in Paths : \E content \in Versions(path) : WriteFile(path, content)

SpecWatch == InitWatch /\ [][WatchNext]_vars

-----------------------------------------------------------------------------
(* start_monitoring and stop_monitoring with every thread they start.  The  *)
(* watched directory is empty, so a tick of _monitor_files leaves the store *)
(* alone and a loop is told by where it stands: "m_while" (the test of the  *)
(* flag), "m_tick" (the try body), "m_sleep" (time.sleep(CHECK_INTERVAL)),  *)
(* "m_backoff" (time.sleep(5)) or "exited".  mon.loops holds the threads in *)
(* the order of their start; self._monitor_thread is the last of them.      *)

\* SimpleRecipeManager.__init__: the flag is set and the first thread started
InitSync ==
    /\ recipes = <<>>
    /\ title_to_idx = <<>>
    /\ index = <<>>
    /\ changes = <<>>
    /\ auto_save = TRUE
    /\ disk = [index |-> NoFile, data |-> NoFile, writes |-> 0]
    /\ last = [op |-> "start_monitoring", was_active |-> FALSE, loops |-> 0]
    /\ pc = Idle
    /\ loc = NoLocals
    /\ monitor_active = TRUE
    /\ mon = [at |-> "none", loops |-> << "m_while" >>]
    /\ fs = NoFiles

\* start_monitoring: if self._monitor_active: return; else the flag is set
\* and a new thread is started.  "last" keeps what the call found
SyncStart ==
    /\ pc["fg"] = "idle"
    /\ last' = [op |-> "start_monitoring", was_active |-> monitor_active,
                loops |-> Len(mon.loops)]
    /\ IF monitor_active
       THEN UNCHANGED <<monitor_active, mon>>
       ELSE /\ Len(mon.loops) < MaxThreads
            /\ monitor_active' = TRUE
            /\ mon' = [mon EXCEPT !.loops = Append(@, "m_while")]
    /\ UNCHANGED <<recipes, title_to_idx, index, changes, auto_save, disk, pc, loc, fs>>

\* stop_monitoring: self._monitor_active = False, then the join is entered
SyncStop ==
    /\ pc["fg"] = "idle"
    /\ monitor_active' = FALSE
    /\ pc' = [pc EXCEPT !["fg"] = "join"]
    /\ last' = [op |-> "stop_monitoring"]
    /\ UNCHANGED <<recipes, title_to_idx, index, changes, auto_save, disk, loc, mon, fs>>

\* self._monitor_thread.join(timeout=2) returns: the thread has ended, or two
\* seconds have passed while it was in one of its sleeps (CHECK_INTERVAL is
\* two seconds, the back-off sleep lasts five)
SyncJoin ==
    /\ pc["fg"] = "join"
    /\ mon.loops[Len(mon.loops)] \in {"exited", "m_sleep", "m_backoff"}
    /\ pc' = [pc EXCEPT !["fg"] = "idle"]
    /\ UNCHANGED <<store, loc, monitor_active, mon, fs>>

\* the i-th thread executes _monitor_files up to its next stop
SyncLoop(i) ==
    /\ \E at \in CASE mon.loops[i] = "m_while" ->
                        IF monitor_active THEN {"m_tick"} ELSE {"exited"}
                   [] mon.loops[i] = "m_tick" -> {"m_sleep", "m_backoff"}
                   [] mon.loops[i] \in {"m_sleep", "m_backoff"} -> {"m_while"}
                   [] OTHER -> {} :
          mon' = [mon EXCEPT !.loops[i] = at]
    /\ UNCHANGED <<store, pc, loc, monitor_active, fs>>

SyncNext ==
    \/ SyncStart
    \/ SyncStop
    \/ SyncJoin
    \/ \E i \in 1 .. Len(mon.loops) : SyncLoop(i)

SpecSync == InitSync /\ [][SyncNext]_vars

-----------------------------------------------------------------------------
(* src/database.py: DocumentDatabase.  The SQLite file is held in "disk":   *)
(* the rows of documents in the order of their insertion (the order of      *)
(* upload_time) and the rows of update_log.  The timestamps, which no       *)
(* statement reads except to order the rows, are left out.  Each call is    *)
(* one transaction.                                                         *)

\* the texts handed to add_document
Contents == {"c1", "c2"}

\* hashlib.md5(content.encode()).hexdigest(): equal exactly for equal texts
Md5(content) == [md5 |-> content]

\* f"doc_{content_hash[:16]}"
DocId(content_hash) == [doc |-> content_hash.md5]

\* init_database on a new file: the tables are empty
InitDb ==
    /\ recipes = <<>>
    /\ title_to_idx = <<>>
    /\ index = <<>>
    /\ changes = <<>>
    /\ auto_save = TRUE
    /\ disk = [index |-> NoFile, data |-> NoFile, writes |-> 0,
               documents |-> <<>>, update_log |-> <<>>]
    /\ last = [op |-> "none"]
    /\ pc = Idle
    /\ loc = NoLocals
    /\ monitor_active = FALSE
    /\ mon = NoMonitor
    /\ fs = NoFiles

\* INSERT INTO update_log (document_id, operation, details)
Logged(doc_id, operation) ==
    Append(disk.update_log, [document_id |-> doc_id, operation |-> operation])

\* add_document: the row with this content_hash, if there is one, has its
\* last_modified set; else a row is inserted (is_active DEFAULT 1)
AddDocument(filename, content) ==
    LET content_hash == Md5(content)
        existing == {i \in 1 .. Len(disk.documents) :
                        disk.documents[i].content_hash = content_hash}
        doc_id == IF existing = {} THEN DocId(content_hash)
                  ELSE disk.documents[CHOOSE i \in existing : TRUE].id
    IN  /\ Len(disk.update_log) < MaxDbOps
        /\ disk' = [disk EXCEPT
                      !.documents =
                          IF existing = {}
                          THEN Append(@, [id |-> doc_id, filename |-> filename,
                                          content_hash |-> content_hash, is_active |-> 1])
                          ELSE @,
                      !.update_log = Logged(doc_id, IF existing = {} THEN "ADD" ELSE "UPDATE")]
        /\ last' = [op |-> "add_document", content |-> content, result |-> doc_id]
        /\ UNCHANGED <<recipes, title_to_idx, index, changes, auto_save, watch, pc, loc>>

\* delete_document: UPDATE documents SET is_active = 0 WHERE id = ?
DeleteDocument(doc_id) ==
    /\ Len(disk.update_log) < MaxDbOps
    /\ disk' = [disk EXCEPT
                  !.documents = [i \in DOMAIN @ |->
                                    IF @[i].id = doc_id THEN [@[i] EXCEPT !.is_active = 0]
                                    ELSE @[i]],
                  !.update_log = Logged(doc_id, "DELETE")]
    /\ last' = [op |-> "delete_document", doc_id |-> doc_id]
    /\ UNCHANGED <<recipes, title_to_idx, index, changes, auto_save, watch, pc, loc>>

\* get_all_documents: SELECT * FROM documents WHERE is_active = 1 ORDER BY
\* upload_time DESC
GetAllDocuments ==
    /\ LET active == SelectSeq(disk.documents, LAMBDA row : row.is_active = 1)
       IN  last' = [op |-> "get_all_documents",
                    result |-> [i \in 1 .. Len(active) |-> active[Len(active) + 1 - i]]]
    /\ UNCHANGED <<recipes, title_to_idx, index, changes, auto_save, watch, disk, pc, loc>>

DbNext ==
    \/ \E filename \in Paths, content \in Contents : AddDocument(filename, content)
    \/ \E content \in Contents : DeleteDocument(DocId(Md5(content)))
    \/ GetAllDocuments

SpecDb == InitDb /\ [][DbNext]_vars

-----------------------------------------------------------------------------
(* Properties of the calls made one at a time *)

\* the number of positions of the index that hold vector v
Count(ix, v) == Cardinality({p \in 1 .. Len(ix) : ix[p] = v})

\* the vectors the embedder yields for the records of title t (the embedder
\* maps the records of different titles to different vectors)
VectorsOf(t) == {Embedding(r) : r \in {x \in Recipes : x.title = t}}

\* the number of tombstoned slots of title t
NTomb(t) == Cardinality({i \in 1 .. Len(recipes) : recipes[i] = Tombstone(t)})

\* delete_recipe(t) returned true and t was not added again
Deleted(t) == t \notin DOMAIN title_to_idx /\ NTomb(t) > 0

\* C1: after delete_recipe(title) returned true, and while the title is not
\* added again, no search result carries that title, whatever the query, the
\* filters and k are.
C1_TombstoneExclusion ==
    (last.op = "search") =>
        \A i \in 1 .. Len(last.results) : ~Deleted(last.results[i].recipe.title)

\* the step is a call add_or_update(recipe)
IsAddOrUpdate(recipe) ==
    /\ last'.op = "add_or_update"
    /\ last'.recipe = recipe

\* C2: a second add_or_update with the same content, directly after the
\* first, reports no_change and leaves the record table, the title map, the
\* index, the change log and the persisted artifacts as they were.
C2_Idempotence ==
    [][ \A recipe \in Recipes :
          (last.op = "add_or_update" /\ last.recipe = recipe /\ IsAddOrUpdate(recipe))
              => /\ last'.result.action = "no_change"
                 /\ UNCHANGED <<recipes, title_to_idx, index, changes, disk>> ]_vars

\* a first add_or_update added the record and the same call was made again
C2_Witness ==
    /\ last.op = "add_or_update"
    /\ last.result.action = "no_change"
    /\ Len(changes) = 1
    /\ changes[1].action = "add"
    /\ disk.writes = 1

\* C3: every title of the title map points at a slot of the table whose
\* record has that title and is no tombstone; a title delete_recipe was just
\* called for has no entry.
C3_SlotTitle ==
    /\ \A t \in DOMAIN title_to_idx :
          /\ title_to_idx[t] \in 0 .. (Len(recipes) - 1)
          /\ Get(Slot(recipes, title_to_idx[t]), "title", "<None>") = t
          /\ ~Get(Slot(recipes, title_to_idx[t]), "deleted", FALSE)
    /\ (last.op = "delete_recipe") => (last.title \notin DOMAIN title_to_idx)

\* a title was deleted and added again while another title is tracked
C3_Witness ==
    \E t \in DOMAIN title_to_idx, u \in DOMAIN title_to_idx :
        /\ t # u
        /\ NTomb(t) > 0
        /\ title_to_idx[t] = 2

\* C4: for every tracked title the vector at the index position of its slot
\* is the embedding of its current record.
C4_Alignment ==
    \A t \in DOMAIN title_to_idx :
        /\ title_to_idx[t] < Len(index)
        /\ index[title_to_idx[t] + 1] = Embedding(Slot(recipes, title_to_idx[t]))

\* C5: for every tracked title the index holds the vector of its current
\* record, and holds no other vector of that title than those of the title's
\* tombstoned slots.
C5_OneEmbeddingPerLiveSlot ==
    \A t \in DOMAIN title_to_idx :
        /\ Count(index, Embedding(Slot(recipes, title_to_idx[t]))) >= 1
        /\ Cardinality({p \in 1 .. Len(index) : index[p] \in VectorsOf(t)}) = 1 + NTomb(t)

\* C9: add_or_update of a title that is not in the title map appends the
\* record as one new slot at position len(records), maps the title to it, adds
\* one vector, appends one "add" entry with the title and the user, changes no
\* other slot or mapping, and reports "added".
C9_AddNew ==
    [][ \A recipe \in Recipes :
          (IsAddOrUpdate(recipe) /\ recipe.title \notin DOMAIN title_to_idx)
              => /\ recipes' = recipes \o <<recipe>>
                 /\ DOMAIN title_to_idx' = DOMAIN title_to_idx \cup {recipe.title}
                 /\ title_to_idx'[recipe.title] = Len(recipes)
                 /\ \A t \in DOMAIN title_to_idx : title_to_idx'[t] = title_to_idx[t]
                 /\ index' = index \o <<Embedding(recipe)>>
                 /\ changes' = changes \o
                        <<[title |-> recipe.title, action |-> "add", user |-> last'.user]>>
                 /\ last'.result.action = "added"
                 /\ last'.result.title = recipe.title ]_vars

\* a title was added while another slot existed
C9_Witness ==
    /\ last.op = "add_or_update"
    /\ last.result.action = "added"
    /\ Len(recipes) >= 2
    /\ changes[Len(changes)] = [title |-> last.recipe.title, action |-> "add", user |-> last.user]

\* C10: add_or_update of a tracked title with a different content hash
\* overwrites the record in the title's slot, removes that slot's old vector
\* from the index and inserts the new one, appends one "update" entry with the
\* old and the new hash and the user, and reports "updated".
C10_Update ==
    [][ \A recipe \in Recipes :
          ( /\ IsAddOrUpdate(recipe)
            /\ recipe.title \in DOMAIN title_to_idx
            /\ HashRecipe(Slot(recipes, title_to_idx[recipe.title])) # HashRecipe(recipe) )
              => LET idx == title_to_idx[recipe.title]
                     old == Slot(recipes, idx)
                 IN  /\ recipes' = [recipes EXCEPT ![idx + 1] = recipe]
                     /\ title_to_idx' = title_to_idx
                     /\ Len(index') = Len(index)
                     /\ \A v \in {Embedding(r) : r \in Recipes} :
                            Count(index', v) =
                                Count(index, v)
                                    - (IF v = Embedding(old) THEN 1 ELSE 0)
                                    + (IF v = Embedding(recipe) THEN 1 ELSE 0)
                     /\ changes' = changes \o
                            <<[title |-> recipe.title, action |-> "update",
                               old_hash |-> Prefix8(HashRecipe(old)),
                               new_hash |-> Prefix8(HashRecipe(recipe)),
                               user |-> last'.user]>>
                     /\ last'.result.action = "updated" ]_vars

\* C8: every result of a search with a cuisine filter set (a non-empty
\* value) has exactly that cuisine, and every result of a search with a diet
\* filter set exactly that diet.
C8_FilterCorrectness ==
    (last.op = "search") =>
        \A i \in 1 .. Len(last.results) :
            /\ ("cuisine" \in DOMAIN last.filters /\ last.filters.cuisine # "")
                  => /\ "cuisine" \in DOMAIN last.results[i].recipe
                     /\ last.results[i].recipe.cuisine = last.filters.cuisine
            /\ ("diet" \in DOMAIN last.filters /\ last.filters.diet # "")
                  => /\ "diet" \in DOMAIN last.results[i].recipe
                     /\ last.results[i].recipe.diet = last.filters.diet

\* a search with cuisine filter "Italian" returned a record while a record
\* of cuisine "italian" was as near to the query as the threshold asks
C8_Witness ==
    /\ last.op = "search"
    /\ "cuisine" \in DOMAIN last.filters
    /\ last.filters.cuisine = "Italian"
    /\ Len(last.results) >= 1
    /\ \E i \in 1 .. Len(recipes) :
          /\ Get(recipes[i], "cuisine", "<None>") = "italian"
          /\ i <= Len(index)
          /\ AboveThreshold(Dist(EmbedText(last.query), index[i]))

\* the candidates of the last search that are to be accepted, in the order
\* index.search gives them: a position of the table whose record the filters
\* let pass and whose similarity reaches the threshold
AcceptedCandidates ==
    LET cands == IndexSearch(index, EmbedText(last.query), Min(2 * last.k, Len(recipes)))
        Accepted(c) == /\ c.idx >= 0
                       /\ c.idx < Len(recipes)
                       /\ ~Rejected(Slot(recipes, c.idx), last.filters)
                       /\ AboveThreshold(c.dist)
    IN  SelectSeq(cands, Accepted)

\* C24: whatever the store holds, a search with k >= 1 returns: at most k
\* results, each with similarity >= SIM_THRESHOLD, in ascending distance,
\* and they are the first min(k, number accepted) accepted candidates among
\* the min(2k, number of slots) nearest index positions.
C24_ResultSelection ==
    (last.op = "search") =>
        /\ ~last.raised
        /\ Len(last.results) <= last.k
        /\ Len(last.results) = Min(last.k, Len(AcceptedCandidates))
        /\ \A i \in 1 .. Len(last.results) :
              /\ AboveThreshold(last.results[i].dist)
              /\ last.results[i].idx = AcceptedCandidates[i].idx
              /\ last.results[i].dist = AcceptedCandidates[i].dist
              /\ last.results[i].recipe = Slot(recipes, AcceptedCandidates[i].idx)
              /\ \A j \in 1 .. i : last.results[j].dist <= last.results[i].dist

\* the step is a delete_recipe(t) call
IsDelete(t) == last'.op = "delete_recipe" /\ last'.title = t /\ vars' # vars

\* C11: delete_recipe of a title that is not in the title map returns false
\* and changes nothing; of a title that is in the map it removes the map
\* entry, replaces the slot's record by a tombstone that keeps the title and
\* has deleted = true, appends exactly one "delete" entry to the change log,
\* leaves the table's length and the index as they were and returns true; a
\* delete_recipe of the same title directly after it returns false.
C11_Delete ==
    [][ \A t \in Titles :
          IsDelete(t) =>
            /\ (t \notin DOMAIN title_to_idx)
                  => /\ last'.result = FALSE
                     /\ UNCHANGED <<recipes, title_to_idx, index, changes, disk>>
            /\ (t \in DOMAIN title_to_idx)
                  => /\ last'.result = TRUE
                     /\ DOMAIN title_to_idx' = DOMAIN title_to_idx \ {t}
                     /\ \A u \in DOMAIN title_to_idx' : title_to_idx'[u] = title_to_idx[u]
                     /\ Len(recipes') = Len(recipes)
                     /\ \A i \in 1 .. Len(recipes) :
                           recipes'[i] = IF i = title_to_idx[t] + 1
                                         THEN [title |-> t, deleted |-> TRUE]
                                         ELSE recipes[i]
                     /\ index' = index
                     /\ changes' = Append(changes, [title |-> t, action |-> "delete"])
            /\ (last.op = "delete_recipe" /\ last.title = t) => last'.result = FALSE ]_vars

\* a delete_recipe returned true on a store with another slot and one vector
\* per slot, and the log has the entries of the adds before it
C11_Witness ==
    /\ last.op = "delete_recipe"
    /\ last.result = TRUE
    /\ Len(recipes) >= 2
    /\ Len(index) = Len(recipes)
    /\ changes[Len(changes)].action = "delete"
    /\ recipes[1] = [title |-> last.title, deleted |-> TRUE]

\* C12: slots are never reused: the record table never shrinks, a slot that
\* holds a tombstone is never written again, and a title that enters the
\* title map (a new title or a deleted one added again) gets a slot number
\* greater than every slot number handed out before.
C12_NoReuse ==
    [][ /\ Len(recipes') >= Len(recipes)
        /\ \A i \in 1 .. Len(recipes) :
              Get(recipes[i], "deleted", FALSE) => recipes'[i] = recipes[i]
        /\ \A t \in DOMAIN title_to_idx' \ DOMAIN title_to_idx :
              /\ title_to_idx'[t] >= Len(recipes)
              /\ \A u \in DOMAIN title_to_idx : title_to_idx'[t] > title_to_idx[u] ]_vars

\* a deleted title was added again: its tombstone is still in a lower slot
C12_Witness ==
    /\ last.op = "add_or_update"
    /\ last.result.action = "added"
    /\ \E i \in 1 .. Len(recipes) :
          /\ recipes[i] = [title |-> last.recipe.title, deleted |-> TRUE]
          /\ i - 1 < title_to_idx[last.recipe.title]

\* C28: from a fresh store, after every completed add_or_update or
\* delete_recipe of a sequence of calls made one at a time, the index holds
\* as many vectors as the record table has slots, tombstones included.
C28_SizeInvariant == Len(index) = Len(recipes)

\* an add, an update and a delete have been made: two slots, one a tombstone
C28_Witness ==
    /\ Len(recipes) = 2
    /\ Len(index) = 2
    /\ \E i \in 0 .. 1 : Get(Slot(recipes, i), "deleted", FALSE)
    /\ \E i \in 1 .. Len(changes) : changes[i].action = "update"
    /\ last.op = "delete_recipe"

-----------------------------------------------------------------------------
(* Properties of persistence *)

\* C13: when a write of _save fails during add_or_update or delete_recipe,
\* the mutation in memory stays applied and the call still hands its outcome
\* to the caller, with a warning, instead of raising.
C13_SaveFailureSurfaced ==
    \A t \in Threads :
        (pc[t] = "idle" /\ Get(loc[t], "save_failed", FALSE))
            => /\ IF loc[t].op = "add_or_update"
                  THEN /\ loc[t].title \in DOMAIN title_to_idx
                       /\ Slot(recipes, title_to_idx[loc[t].title]) = loc[t].recipe
                  ELSE loc[t].title \notin DOMAIN title_to_idx
               /\ changes[Len(changes)].title = loc[t].title
               /\ "raised" \notin DOMAIN loc[t].result
               /\ "warning" \in DOMAIN loc[t].result

\* C14: the store a new process holds after _load is either the fresh empty
\* one, or an index and a table (records, title map, change log) that one
\* and the same save wrote; a lone artifact, an unreadable artifact or a save
\* cut between its two writes gives the fresh empty store.
C14_LoadBothOrNeither ==
    [][ (last'.op = "_load" /\ last' # last) =>
          \/ /\ recipes' = <<>> /\ title_to_idx' = <<>>
             /\ index' = <<>> /\ changes' = <<>>
          \/ /\ Readable(disk'.index) /\ Readable(disk'.data)
             /\ disk'.index.save = disk'.data.save
             /\ index' = disk'.index.vectors
             /\ recipes' = disk'.data.recipes
             /\ title_to_idx' = disk'.data.title_to_idx
             /\ changes' = disk'.data.changes ]_vars

\* the neighbour positions index.search returns
Positions(cands) == [i \in 1 .. Len(cands) |-> cands[i].idx]

\* C16: with AUTO_SAVE on, after any sequence of add_or_update and
\* delete_recipe calls a store constructed from the two artifacts has the
\* same record table and the same title map as the store in memory, and its
\* index returns the same neighbour positions for every query.
C16_RoundTrip ==
    auto_save =>
        /\ Load(disk).recipes = recipes
        /\ Load(disk).title_to_idx = title_to_idx
        /\ \A query \in Queries, n \in 0 .. MaxSlots :
              Positions(IndexSearch(Load(disk).index, EmbedText(query), n))
                  = Positions(IndexSearch(index, EmbedText(query), n))

\* the artifacts hold a store after an update and a delete
C16_Witness ==
    /\ auto_save
    /\ disk.writes >= 3
    /\ Len(Load(disk).recipes) >= 2
    /\ \E i \in 1 .. Len(changes) : changes[i].action = "update"
    /\ \E i \in 1 .. Len(recipes) : Get(recipes[i], "deleted", FALSE)

\* the call of the foreground returned (it did not raise)
Returned ==
    pc["fg"] = "idle" /\ "result" \in DOMAIN loc["fg"] /\ "save_failed" \notin DOMAIN loc["fg"]

\* it was an add_or_update that added or updated, or a delete_recipe that
\* returned True
ReturnedMutation ==
    /\ Returned
    /\ IF loc["fg"].op = "delete_recipe" THEN loc["fg"].result
       ELSE loc["fg"].result.action \in {"added", "updated"}

\* the call under way is in _save
InSave == pc["fg"] \in {"save_index", "save_data"}

\* the artifacts hold the store, and of the log its last min(100, length) entries
Durable ==
    LET n == Len(changes)
        m == IF n < 100 THEN n ELSE 100
    IN  /\ Readable(disk.index)
        /\ disk.index.vectors = index
        /\ Readable(disk.data)
        /\ disk.data.recipes = recipes
        /\ disk.data.title_to_idx = title_to_idx
        /\ Len(disk.data.changes) = m
        /\ \A i \in 1 .. m : disk.data.changes[i] = changes[n - m + i]

\* C25: with AUTO_SAVE, when an add_or_update that added or updated or a
\* delete_recipe that returned True returns, the artifacts hold the current
\* table, map and index and the last min(100, length) log entries in order;
\* the log in memory only grows; the artifacts are written only inside
\* _save of a call that added, updated or deleted (never by a no_change call
\* or a delete of an unknown title), and never without AUTO_SAVE.
C25_Persistence ==
    /\ [](/\ (ReturnedMutation /\ auto_save) => Durable
          /\ InSave => IF loc["fg"].op = "delete_recipe"
                       THEN "idx" \in DOMAIN loc["fg"]
                       ELSE loc["fg"].action \in {"added", "updated"}
          /\ ~auto_save => ~disk.index.exists /\ ~disk.data.exists)
    /\ [][/\ Len(changes') >= Len(changes)
          /\ SubSeq(changes', 1, Len(changes)) = changes
          /\ disk' # disk => InSave /\ auto_save
          /\ (Returned' /\ ~ReturnedMutation') => disk' = disk]_vars

\* a mutating call returned with the log longer than what _save keeps
C25_Witness ==
    /\ ReturnedMutation
    /\ auto_save
    /\ Len(changes) > KEEP_CHANGES
    /\ Len(disk.data.changes) = KEEP_CHANGES
    /\ loc["fg"].op = "delete_recipe"

-----------------------------------------------------------------------------
(* Properties of the synchronizer *)

\* the positions of a tick, from the enumeration to the check for deleted files
InTick == {"m_ext", "m_file", "m_open", "m_store", "m_call", "m_deleted"}

\* C19: once stop_monitoring has cleared the flag (and no start_monitoring
\* follows), the loop finishes the tick it is in: from a position inside the
\* tick it goes on inside the tick or to the sleep that ends it (normally or
\* in the failure branch); after the sleep it tests the flag; at the test it
\* starts no tick and ends; and it does end.
C19_StoppableLoop ==
    /\ [][ (~monitor_active /\ ~monitor_active' /\ mon' # mon) =>
              /\ (mon.at \in InTick) => mon'.at \in InTick \cup {"m_sleep", "m_backoff"}
              /\ (mon.at \in {"m_sleep", "m_backoff"}) => mon'.at = "m_while"
              /\ (mon.at = "m_while") => mon'.at = "exited" ]_vars
    /\ (~monitor_active) ~> (mon.at = "exited")

\* the flag is cleared and the thread has ended after a tick that found files
C19_Witness ==
    /\ ~monitor_active
    /\ mon.at = "exited"
    /\ DOMAIN mon.current_files # {}
    /\ Len(recipes) >= 1

\* the file the loop is at cannot be checked, read or stored: getmtime,
\* open/read or add_or_update raises
FileFails ==
    \/ mon.at = "m_file" /\ mon.files # <<>> /\ Head(mon.files) \notin DOMAIN fs.files
    \/ /\ mon.at = "m_open"
       /\ \/ mon.cur.filepath \notin DOMAIN fs.files
          \/ "undecodable" \in DOMAIN fs.files[mon.cur.filepath].content
    \/ /\ mon.at = "m_call" /\ pc["monitor"] = "idle"
       /\ "raised" \in DOMAIN loc["monitor"].result

\* the files of the tick still to be looked at
Remaining == IF mon.at = "m_file" THEN Tail(mon.files) ELSE mon.files

\* C20: while the flag is set the loop never ends; a failure while checking,
\* reading or storing one file is caught and the loop goes on with the
\* remaining files of the tick, which it gets through unless the tick itself
\* fails; and a failure of the tick leads to the back-off and, the flag
\* still set, to a new tick.
C20_FailuresDoNotTerminate ==
    /\ [][ /\ (monitor_active /\ mon'.at = "exited") => mon.at = "exited"
           /\ (FileFails /\ mon' # mon /\ mon'.at # "m_backoff")
                 => /\ mon'.at = "m_file"
                    /\ mon'.files = Remaining
                    /\ mon'.exts = mon.exts ]_vars
    /\ (mon.at \in {"m_file", "m_open", "m_store", "m_call"})
          ~> (mon.at \in {"m_ext", "m_backoff"})
    /\ (mon.at = "m_backoff") ~> (mon.at = "m_ext" \/ ~monitor_active)

\* add_or_update raised to _process_file while the flag is set and a file
\* of the same tick is still to be looked at
C20_Witness ==
    /\ monitor_active
    /\ mon.at = "m_call"
    /\ pc["monitor"] = "idle"
    /\ "raised" \in DOMAIN loc["monitor"].result
    /\ mon.files # <<>>

\* the loop is inside _process_file for the file it found changed
Processing == {"m_open", "m_store", "m_call"}

\* C21: in a tick a file is processed exactly when its modification time is
\* not the one the watch map holds for it (or the map has no entry); an
\* attempt that was begun is never left except through the statement
\* last_check[filepath] = mtime, which records the time read in this tick
\* for this file and nothing else, whether open/read raised, add_or_update
\* raised or add_or_update returned.
C21_WatchMapUpdated ==
    [][ /\ ( /\ mon.at = "m_file" /\ mon' # mon /\ mon'.at # "m_backoff"
             /\ mon.files # <<>> /\ Head(mon.files) \in DOMAIN fs.files )
              => ( mon'.at = "m_open"
                     <=> \/ Head(mon.files) \notin DOMAIN mon.last_check
                         \/ mon.last_check[Head(mon.files)]
                                # fs.files[Head(mon.files)].mtime )
        /\ (mon.at \in Processing /\ mon' # mon)
              => /\ mon'.at \in Processing \cup {"m_file"}
                 /\ (mon'.at \in Processing) => mon'.last_check = mon.last_check
                 /\ (mon'.at = "m_file")
                       => /\ DOMAIN mon'.last_check
                                = DOMAIN mon.last_check \cup {mon.cur.filepath}
                          /\ mon'.last_check[mon.cur.filepath] = mon.cur.mtime
                          /\ \A p \in DOMAIN mon.last_check \ {mon.cur.filepath} :
                                mon'.last_check[p] = mon.last_check[p] ]_vars

\* a file that cannot be decoded was attempted and the watch map holds its
\* time, next to the entry of a file that was stored
C21_Witness ==
    /\ "b.md" \in DOMAIN fs.files
    /\ "undecodable" \in DOMAIN fs.files["b.md"].content
    /\ "b.md" \in DOMAIN mon.last_check
    /\ mon.last_check["b.md"] = fs.files["b.md"].mtime
    /\ mon.at = "m_file"
    /\ mon.files = <<>>
    /\ "b.md" \in DOMAIN mon.current_files
    /\ "a.md" \in DOMAIN mon.last_check

\* the record ingested from the file of A is tracked: the map leads to a live
\* slot that holds it
TrackedA ==
    /\ "A" \in DOMAIN title_to_idx
    /\ Get(Slot(recipes, title_to_idx["A"]), "source", "") = "a.md"
    /\ ~Get(Slot(recipes, title_to_idx["A"]), "deleted", FALSE)

\* C26: a file seen in an earlier tick and absent in this one loses its entry
\* of last_check in the deletion pass of this tick, and that is all: the pass
\* leaves the store as it is, the loop never calls delete_recipe, no delete
\* entry is logged and the record of the file stays tracked; a file that is
\* back and has no entry is handed to _process_file like a new one.
C26_FileDisappearance ==
    /\ [](/\ loc["monitor"].op # "delete_recipe"
          /\ \A i \in 1 .. Len(changes) : changes[i].action # "delete"
          /\ TrackedA)
    /\ [][/\ (mon.at = "m_deleted" /\ mon'.at = "m_sleep") =>
                /\ \A p \in DOMAIN mon.last_check :
                      p \in DOMAIN mon'.last_check <=> p \in DOMAIN mon.current_files
                /\ UNCHANGED <<recipes, title_to_idx, index, changes, disk>>
          /\ (/\ mon.at = "m_file"
              /\ mon' # mon
              /\ mon'.at # "m_backoff"
              /\ mon.files # <<>>
              /\ Head(mon.files) \in DOMAIN fs.files
              /\ Head(mon.files) \notin DOMAIN mon.last_check) =>
                (mon'.at = "m_open" /\ mon'.cur.filepath = Head(mon.files))]_vars

\* the entry of a.md was dropped, the file is back and its record is handed
\* to add_or_update again
C26_Witness ==
    /\ mon.at = "m_call"
    /\ mon.cur.filepath = "a.md"
    /\ "a.md" \notin DOMAIN mon.last_check
    /\ pc["monitor"] = "idle"
    /\ loc["monitor"].result = Outcome("no_change", "A")

\* the threads that have not left _monitor_files
Running == {i \in 1 .. Len(mon.loops) : mon.loops[i] # "exited"}

\* C27: whatever start_monitoring and stop_monitoring calls are made, at most
\* one thread is in the loop of _monitor_files at any time, and a
\* start_monitoring that finds the flag set starts no thread.
C27_SingleSynchronizer ==
    /\ Cardinality(Running) <= 1
    /\ (last.op = "start_monitoring" /\ last.was_active) => Len(mon.loops) = last.loops

-----------------------------------------------------------------------------
(* Properties of edit_recipe *)

\* a word of the text holds the marker, letter case aside
HasMarker(content, marker) ==
    \E i \in 1 .. Len(content) : \E j \in 1 .. Len(content[i]) :
        IsIn(Chars(marker), Lower(Chars(content[i][j])))

\* the errors validate is to report for the text, in its order
RECURSIVE Missing(_, _)
Missing(content, i) ==
    IF i > Len(Required) THEN <<>>
    ELSE (IF HasMarker(content, Required[i].marker) THEN <<>> ELSE <<Required[i].error>>)
             \o Missing(content, i + 1)

\* the step is the first statement of an edit_recipe call
EditBegins == last'.op = "edit_recipe" /\ (last.op # "edit_recipe" \/ last.at = "returned")

\* C22: an edit_recipe call whose text lacks a required marker returns at
\* once with success = false and the errors of the missing markers, and
\* writes nothing: record table, title map, index, change log and the two
\* artifacts are as before the call, and no store call is entered.
C22_RejectedEdit ==
    [][ (EditBegins /\ Missing(last'.new_content, 1) # <<>>) =>
          /\ last'.at = "returned"
          /\ last'.result = [success |-> FALSE, errors |-> Missing(last'.new_content, 1)]
          /\ UNCHANGED <<recipes, title_to_idx, index, changes, disk, pc>>
          /\ loc'["fg"].op = "none" ]_vars

\* an edit of a tracked title was rejected for the one section it lacks,
\* with durability on and the artifacts written before
C22_Witness ==
    /\ last.op = "edit_recipe"
    /\ last.at = "returned"
    /\ last.result.success = FALSE
    /\ last.result.errors = <<"Missing steps section">>
    /\ last.old_title \in DOMAIN title_to_idx
    /\ auto_save
    /\ disk.writes >= 1

\* C29: for a text that passes validate, edit_recipe(old_title, text) has
\* the effect of add_or_update(parse(text), "user_edit") on the store as it
\* was when the call was made, whatever old_title is: a parsed title that is
\* not tracked is added in a new slot at the end; a tracked one keeps its
\* slot, which then holds the parsed record (updated, or no_change when it
\* held it already); every other tracked title, old_title included, keeps
\* its slot and its record; the log grows by at most the one entry of the
\* parsed title; and the call returns what add_or_update returned.
C29_EditKeysOnParsedTitle ==
    [][ (last.op = "edit_recipe" /\ last.at = "parse" /\ last'.op = "edit_recipe"
           /\ last'.at = "returned") =>
          LET b == last.before
              r == Parse(last.new_content, "")
              p == r.title
              action == last'.result.action
          IN  /\ last'.result.success
              /\ last'.result.title = p
              /\ \A t \in DOMAIN b.title_to_idx \ {p} :
                    /\ t \in DOMAIN title_to_idx
                    /\ title_to_idx[t] = b.title_to_idx[t]
                    /\ Slot(recipes, title_to_idx[t]) = Slot(b.recipes, title_to_idx[t])
              /\ DOMAIN title_to_idx = DOMAIN b.title_to_idx \cup {p}
              /\ Slot(recipes, title_to_idx[p]) = r
              /\ IF p \notin DOMAIN b.title_to_idx
                 THEN /\ action = "added"
                      /\ recipes = Append(b.recipes, r)
                      /\ title_to_idx[p] = Len(b.recipes)
                      /\ index = Append(b.index, Embedding(r))
                      /\ changes = Append(b.changes,
                             [title |-> p, action |-> "add", user |-> "user_edit"])
                 ELSE /\ title_to_idx[p] = b.title_to_idx[p]
                      /\ Len(recipes) = Len(b.recipes)
                      /\ \A i \in 0 .. Len(recipes) - 1 :
                            i # title_to_idx[p] => Slot(recipes, i) = Slot(b.recipes, i)
                      /\ IF Slot(b.recipes, b.title_to_idx[p]) = r
                         THEN /\ action = "no_change"
                              /\ recipes = b.recipes /\ index = b.index
                              /\ changes = b.changes /\ disk = b.disk
                         ELSE /\ action = "updated"
                              /\ Len(changes) = Len(b.changes) + 1
                              /\ changes[Len(changes)].title = p
                              /\ changes[Len(changes)].action = "update"
                              /\ changes[Len(changes)].user = "user_edit"
                              /\ index = IndexAdd(IndexRemoveIds(b.index, {b.title_to_idx[p]}),
                                                  Embedding(r)) ]_vars

\* an edit called for a tracked title returned "added" for another title,
\* the parsed one, and the title it was called for is still tracked
C29_Witness ==
    /\ last.op = "edit_recipe"
    /\ last.at = "returned"
    /\ last.result.success
    /\ last.result.action = "added"
    /\ last.result.title # last.old_title
    /\ last.old_title \in DOMAIN last.before.title_to_idx
    /\ last.old_title \in DOMAIN title_to_idx
    /\ last.result.title = "Untitled"

-----------------------------------------------------------------------------
(* Properties of validate_answer *)

\* C23: validate_answer with an empty sources list returns valid = false,
\* score = 0 and confidence = "low" and nothing else, whatever the answer.
C23_EmptySources ==
    (last.op = "validate_answer" /\ Len(last.sources) = 0)
        => /\ DOMAIN last.result = {"valid", "score", "confidence"}
           /\ last.result.valid = FALSE
           /\ last.result.score.num = 0
           /\ last.result.score.den = 1
           /\ last.result.confidence = "low"

\* validate_answer was called without sources for an answer that a single
\* source of the inputs makes valid with high confidence
C23_Witness ==
    /\ last.op = "validate_answer"
    /\ Len(last.sources) = 0
    /\ \E d \in SourceDicts :
          /\ ValidateAnswer(last.answer, <<d>>).valid
          /\ ValidateAnswer(last.answer, <<d>>).confidence = "high"

-----------------------------------------------------------------------------
(* Properties of the document database *)

\* the documents whose most recent operation in update_log is an add_document
LastAdded ==
    {d \in {DocId(Md5(c)) : c \in Contents} :
        \E i \in 1 .. Len(disk.update_log) :
            /\ disk.update_log[i].document_id = d
            /\ disk.update_log[i].operation \in {"ADD", "UPDATE"}
            /\ \A j \in i + 1 .. Len(disk.update_log) : disk.update_log[j].document_id # d}

\* C30: get_all_documents returns exactly the documents whose most recent
\* operation is an add_document, a document added again after its soft
\* delete included; adding the same content again returns the same id, and
\* documents holds one row for a content.
C30_Visibility ==
    /\ (last.op = "get_all_documents") =>
          {last.result[i].id : i \in 1 .. Len(last.result)} = LastAdded
    /\ (last.op = "add_document") => last.result = DocId(Md5(last.content))
    /\ \A i, j \in 1 .. Len(disk.documents) :
          disk.documents[i].content_hash = disk.documents[j].content_hash => i = j

-----------------------------------------------------------------------------
(* Properties of the scoring functions *)

\* C17: in the validation score of a candidate, a title, cuisine or diet that
\* is absent from the record or empty adds nothing to the score, whatever the
\* query is.
C17_AbsentFieldsZero ==
    (last.op = "_validate_match") =>
        \A f \in {"title", "cuisine", "diet"} :
            (Get(last.recipe, f, "") = "") => last.contributions[f] = 0

Rank(label) == CASE label = "low" -> 0 [] label = "medium" -> 1 [] label = "high" -> 2

\* a <= b, for fractions
LeqFrac(a, b) == a.num * b.den <= b.num * a.den

\* C18: on the grid of values in [0, 1], the label is "high" when
\* (s + v) / 2 > 0.7, "medium" when it is > 0.4 and "low" otherwise, and the
\* label of (s2, v2) is not lower than the label of (s1, v1) when s1 <= s2
\* and v1 <= v2, in the order low < medium < high.
C18_MonotonicConfidence ==
    [][ (last'.op = "_get_confidence_level") =>
          LET s == last'.similarity.num
              v == last'.validation.num
          IN  /\ last'.similarity.den = GridSteps /\ last'.validation.den = GridSteps
              /\ last'.label = (IF 10 * (s + v) > 14 * GridSteps THEN "high"
                                ELSE IF 10 * (s + v) > 8 * GridSteps THEN "medium"
                                ELSE "low")
              /\ ( /\ last.op = "_get_confidence_level"
                   /\ LeqFrac(last.similarity, last'.similarity)
                   /\ LeqFrac(last.validation, last'.validation) )
                    => Rank(last.label) <= Rank(last'.label) ]_vars

\* a pair strictly inside the grid got the label "high"
C18_Witness ==
    /\ last.op = "_get_confidence_level"
    /\ last.label = "high"
    /\ last.similarity.num < last.similarity.den
    /\ last.validation.num < last.validation.den

-----------------------------------------------------------------------------
(* Properties of the two threads *)

\* thread t is idle and its last call was an add_or_update that added
Added(t) ==
    /\ pc[t] = "idle"
    /\ loc[t].op = "add_or_update"
    /\ "action" \in DOMAIN Get(loc[t], "result", <<>>)
    /\ loc[t].result.action = "added"

\* C6: on a fresh store, when the monitor's add_or_update of a new title and
\* the foreground's add_or_update of another new title have both finished,
\* however their statements interleaved, both titles are in the title map with
\* two different slots, each slot holds its own title's record, the index has
\* grown by two, and the log holds one add entry for each.
C6_ConcurrentAdds ==
    ( /\ Added("monitor")
      /\ Added("fg")
      /\ loc["monitor"].title # loc["fg"].title
      /\ Len(changes) = 2 )
        => /\ {loc["monitor"].title, loc["fg"].title} \subseteq DOMAIN title_to_idx
           /\ title_to_idx[loc["monitor"].title] # title_to_idx[loc["fg"].title]
           /\ \A t \in Threads :
                 /\ title_to_idx[loc[t].title] < Len(recipes)
                 /\ Slot(recipes, title_to_idx[loc[t].title]) = loc[t].recipe
           /\ Len(index) = 2
           /\ \A t \in Threads :
                 Cardinality({i \in 1 .. Len(changes) :
                     changes[i] = [title |-> loc[t].title, action |-> "add",
                                   user |-> loc[t].user]}) = 1

\* the positions of a mutating call between its first write to the store and
\* its log append: the mutation is applied in part
MidMutation ==
    {"add_map", "add_index", "add_log", "upd_remove", "upd_add", "upd_log",
     "del_write", "del_log"}

\* C15: a snapshot _save completes is never partial: when a thread writes the
\* data artifact, no other thread is part-way through a mutation, and the
\* index artifact of the snapshot holds the index of that same state.
C15_SnapshotsWhole ==
    [][ \A t \in Threads :
          (pc[t] = "save_data" /\ pc'[t] = "idle" /\ disk'.writes = disk.writes + 1)
              => /\ \A u \in Threads \ {t} : pc[u] \notin MidMutation
                 /\ disk'.index.vectors = index ]_vars

\* C7: a search never reads the index in an intermediate state of a mutation:
\* when it calls index.search, the index holds as many vectors as the table
\* has slots.
C7_SearchSeesWholeMutations ==
    (pc["fg"] = "s_index") => (Len(index) = Len(recipes))

====
